---- MODULE Spec2Model ----
(***************************************************************************)
(* Model of cli_discord_bot2: the per-message event coalescer              *)
(* (pkg/client), the reply reconciler (pkg/message) and the one-shot       *)
(* futures (pkg/future).                                                   *)
(*                                                                         *)
(* Coalescer: every gateway event is handled by its own goroutine          *)
(* (bot.WithAsyncEventsEnabled); handler p publishes event p, which is     *)
(* about source message pid[p], in mailbox channel p.  A worker is named   *)
(* after the publisher that spawned it.  Every sync.Map operation, channel *)
(* operation, REST call and child-process transition is one atomic step.   *)
(* All events are about source message 1 except under SpecIds.             *)
(***************************************************************************)
EXTENDS Integers, Sequences, FiniteSets, TLC

\* ---- bounds ----
NPub == 2          \* number of gateway events delivered
NIds == 2          \* number of source-message ids the events can be about
MaxCmds == 2       \* largest number of command lines of one event
PubCmds == 1       \* command lines of the events published concurrently
MaxPrior == 2      \* largest number of prior bot replies of either kind
NAwait == 2        \* number of goroutines awaiting one future
NFut == 2          \* largest number of futures passed to Await

MaxOut == 2         \* largest number of runes the target writes
MaxLines == 1       \* largest configured line limit
MaxWords == 2       \* largest number of strings passed to shellwords.Join
MaxJoinLen == 3     \* largest total length of the strings passed to Join
MaxInput == 4       \* largest length of a string passed to shellwords.Split

NumCPU == 1        \* runtime.NumCPU(): capacity of Await's receiverCh

Pubs == 1..NPub
Ids == 1..NIds
NoCh == 0          \* "no mailbox": absent map entry / nothing loaded

VARIABLES
    ppc,        \* ppc[p]: position of handler p in storeLatestEventForMessageID
    pold,       \* pold[p]: the mailbox LoadOrStore found (oldAny)
    pev,        \* pev[p]: the event handler p publishes
    pid,        \* pid[p]: e.MessageID, the source message event p is about
    syncMap,    \* syncMap[i]: q.syncMap entry of source id i: NoCh or a mailbox
    chBuf,      \* chBuf[c]: the event is still buffered in mailbox c
    chClosed,   \* chClosed[c]: mailbox c was closed
    panicked,   \* a close of a closed channel happened
    order,      \* mailboxes in the order they were installed in the map
    wpc,        \* wpc[w]: position of worker w in processEventsForMessageID
    wch,        \* wch[w]: the mailbox worker w loaded (ch)
    wk,         \* wk[w]: index of the await / zip / delete loop
    wexit,      \* wexit[w]: how worker w left its loop
    ctx,        \* ctx[c]: cancel token of mailbox c: "none", "live", "fired"
    child,      \* child[c][k]: child process of command k of event c
    cmdResults, \* cmdResults[c]: results collected by future.Await
    replies,    \* replies[c]: primary reply set read by the reply query
    repliesToBeDeleted, \* repliesToBeDeleted[c]: the delete-set
    rlog,       \* rlog[c]: reconciliation REST calls issued for event c
    anchored,   \* remote: ids of bot replies anchored in the source channel
    threaded,   \* remote: ids of bot replies posted in the message's thread
    nextId,     \* remote: id the next created reply gets
    msgs,       \* remote: msgs[r]: the message of reply r: the source message
                \* it belongs to, its channel, whether it carries a reference
    \* -- one future of pkg/future and its awaiters --
    fkind,      \* how the future was made: "New", "NewDeferred" or "none"
    task,       \* the task body the future was made of
    rpc,        \* rpc[r]: position of runner goroutine r
    rres,       \* rres[r]: the runner's local `result`
    taskRuns,   \* number of executions of the task body
    fclosed,    \* the result channel ch was closed
    startOnce,  \* NewDeferred's sync.Once was used
    recvOnce,   \* the receiver's sync.Once: "fresh", "busy" (receive runs), "done"
    fresult,    \* the receiver's captured `result`
    apc,        \* apc[a]: position of awaiter a in f(ctx)
    actx,       \* actx[a]: the context awaiter a passed is done
    aout,       \* aout[a]: what f(ctx) returned to awaiter a
    \* -- future.Await over a sequence of futures --
    futures,    \* the input sequence: futures[i] is what future i does
    submit,     \* the submitting goroutine: [k: future at hand, pc]
    receiverCh, \* buffer of the channel receiverCh (indices of receivers)
    runner,     \* runner[i]: position of the runner goroutine of future i
    collect,    \* the collecting loop: [pc, cur: receiver at hand]
    yielded,    \* the results yielded so far
    awaitCtx,   \* the context passed to Await is done
    \* -- one call of executeTarget --
    xcall,      \* the call: command line, echo and options
    xprog,      \* the target: what the child does and writes
    xpc,        \* position in executeTarget
    cwd,        \* the private working directory: "none", "exists", "removed"
    xctx,       \* ctx.Err() of the timeout context: "live", "canceled", "deadline"
    proc,       \* the child process
    err,        \* the error of cmd.Run, as its message
    content,    \* content, as the sequence of its pieces
    files,      \* the files attached: name and bytes of the reader
    outi,       \* index of the loop over outputs
    ret,        \* what executeTarget returned: "none", "result", "error"
    \* -- shellwords: one call of Split, on a given string or on Join(inputs) --
    inputs,     \* the argument list passed to Join
    input,      \* the string passed to Split, a sequence of characters
    swpc,       \* position: "idle", "join", "split", "returned", "error"
    at,         \* where the next match of FindAll is looked for
    words,      \* Split's words
    field,      \* Split's field
    \* -- ExecuteCmds: the detection of the input of one message --
    emsg,       \* e.Message: its attachments and the first code block of its content
    extension,  \* o.AttachmentExtensionToTreatAsInput
    ipc,        \* position: "idle", "attachment", "codeblock", "detected", "error"
    stdin,      \* the local `input` of ExecuteCmds, Nil or the bytes
    fetched     \* the attachments requested over HTTP, by index

cvars == <<ppc, pold, pev, pid, syncMap, chBuf, chClosed, panicked, order, wpc,
           wch, wk, wexit, ctx, child, cmdResults, replies, repliesToBeDeleted,
           rlog, anchored, threaded, nextId, msgs>>

fvars == <<fkind, task, rpc, rres, taskRuns, fclosed, startOnce, recvOnce, fresult,
           apc, actx, aout>>

avars == <<futures, submit, receiverCh, runner, collect, yielded, awaitCtx>>

xvars == <<xcall, xprog, xpc, cwd, xctx, proc, err, content, files, outi, ret>>

svars == <<inputs, input, swpc, at, words, field>>

ivars == <<emsg, extension, ipc, stdin, fetched>>

vars == <<cvars, fvars, avars, xvars, svars, ivars>>

\* what an operation of one package leaves alone: the state of the others
exceptCoalescer == <<fvars, avars, xvars, svars, ivars>>
exceptFuture == <<cvars, avars, xvars, svars, ivars>>
exceptAwait == <<cvars, fvars, xvars, svars, ivars>>
exceptExec == <<cvars, fvars, avars, svars, ivars>>
exceptWords == <<cvars, fvars, avars, xvars, ivars>>
exceptInput == <<cvars, fvars, avars, xvars, svars>>

\* ---- events ----
\* The command lines commandlinesFromMentions extracts from a message, one
\* per occurrence of the bot's mention: each line is the name (1, 2, ...) of
\* its text, texts being named in the order of their first occurrence.
CmdLines ==
    {ls \in UNION {[1..m -> 1..MaxCmds] : m \in 0..MaxCmds} :
        \A i \in 1..Len(ls) :
            ls[i] <= 1 + Cardinality({ls[j] : j \in 1..(i - 1)})}

\* mutant of Dedupe: every occurrence is yielded
DedupeNone(seq) == seq

\* xiter.Dedupe: the first occurrence of each value, in order
Dedupe(seq) ==
    LET RECURSIVE from(_, _)
        from(rest, seen) ==
            IF rest = <<>> THEN <<>>
            ELSE IF Head(rest) \in seen THEN from(Tail(rest), seen)
            ELSE <<Head(rest)>> \o from(Tail(rest), seen \cup {Head(rest)})
    IN from(seq, {})

\* seqCmds := xiter.Dedupe(slices.Values(cmds)): the command lines
\* ExecuteCmds maps to futures
seqCmds(lines) == Dedupe(lines)

\* discord.ChannelType of the channel the message is in, as GetChannel
\* reports it; "GuildVoice" stands for every type ExecuteCmds has no case for
ChannelTypes ==
    {"DM", "GuildText", "GuildPublicThread", "GuildPrivateThread", "GuildVoice"}

EmptyLine == 0     \* the name of the command line ""

\* mutant of defaultCmds: a DM has no default command either
defaultCmdsNone(channelType) == <<>>

\* defaultCmds after the switch on the channel type
defaultCmds(channelType) ==
    IF channelType = "DM" THEN <<EmptyLine>> ELSE <<>>

\* cmds of ExecuteCmds: nothing for a guild message that does not mention
\* the bot and for a channel type without a case, else the command lines of
\* the message or, when it has none, the default commands
cmds(e) ==
    CASE e.channel \in {"GuildText", "GuildPublicThread", "GuildPrivateThread"} ->
           IF ~e.mentioned THEN <<>>
           ELSE IF e.lines = <<>> THEN defaultCmds(e.channel) ELSE e.lines
      [] e.channel = "DM" ->
           IF e.lines = <<>> THEN defaultCmds(e.channel) ELSE e.lines
      [] OTHER -> <<>>

\* The futures ExecuteCmds returns: one future.NewError when the channel
\* lookup fails, else one future per command of seqCmds: a deferred
\* helpResult for a blank command line of a message without input, a
\* future.New running executeTarget otherwise.  (ShouldIgnore was false in
\* the handler that published the event.)
ExecuteCmds(e) ==
    IF e.getChannel = "err"
    THEN <<[new |-> "NewError", cmd |-> EmptyLine]>>
    ELSE [k \in 1..Len(seqCmds(cmds(e))) |->
             [new |-> IF k \in e.help THEN "NewDeferred" ELSE "New",
              cmd |-> seqCmds(cmds(e))[k]]]

\* channel, getChannel: the type of the message's channel and whether the
\* lookup of it succeeds; mentioned: the bot is in the message's resolved
\* mention list; lines: the command lines of the message; n: number of
\* execution futures ExecuteCmds yields; thread: the message carries
\* discord.MessageFlagHasThread; bad: the commands whose command line
\* shellwords.Split rejects (executeTarget returns nil and an error); help:
\* the commands whose command line is blank while the message has no input
\* (the future returns helpResult and the target is not executed).
DeleteEvent ==
    [type |-> "Delete", channel |-> "GuildText", getChannel |-> "ok",
     mentioned |-> FALSE, lines |-> <<>>, n |-> 0, thread |-> FALSE,
     bad |-> {}, help |-> {}]

\* the events of the messages of every channel
Messages ==
    {e \in [type : {"Create", "Update"}, channel : ChannelTypes,
            getChannel : {"ok", "err"}, mentioned : BOOLEAN,
            lines : CmdLines, n : 0..MaxCmds, thread : BOOLEAN,
            bad : SUBSET (1..MaxCmds), help : SUBSET (1..MaxCmds)] :
        /\ e.n = Len(ExecuteCmds(e))
        /\ e.bad \subseteq {k \in 1..e.n : /\ e.getChannel = "ok"
                                          /\ ExecuteCmds(e)[k].cmd # EmptyLine}
        /\ e.help \subseteq {k \in 1..e.n : e.getChannel = "ok"}
        /\ e.bad \cap e.help = {}}
    \cup {DeleteEvent}

\* the events of the messages of a guild text channel that mention the bot
Events ==
    {e \in Messages :
        \/ e.type = "Delete"
        \/ e.channel = "GuildText" /\ e.mentioned /\ e.getChannel = "ok"}

\* the events the concurrent publishers deliver: a message without a thread
\* is created, edited and deleted
PubEvents ==
    [type : {"Create", "Update"}, channel : {"GuildText"},
     getChannel : {"ok"}, mentioned : {TRUE},
     lines : {[i \in 1..PubCmds |-> i]},
     n : {PubCmds}, thread : {FALSE}, bad : {{}}, help : {{}}]
    \cup {DeleteEvent}

NoEvent ==
    [type |-> "None", channel |-> "GuildText", getChannel |-> "ok",
     mentioned |-> FALSE, lines |-> <<>>, n |-> 0, thread |-> FALSE,
     bad |-> {}, help |-> {}]

\* ---- helpers ----
Min(a, b) == IF a < b THEN a ELSE b
Max(a, b) == IF a < b THEN b ELSE a

Last(s) == s[Len(s)]

\* slices.SortedFunc(replies, cmpMessage): ascending by reply id
RECURSIVE SortedSeq(_)
SortedSeq(S) ==
    IF S = {} THEN <<>>
    ELSE LET m == CHOOSE x \in S : \A y \in S : x <= y
         IN <<m>> \o SortedSeq(S \ {m})

\* handler := messageEventsHandler{options: o}: an empty map, no event yet
CoalescerStart ==
    /\ ppc = [p \in Pubs |-> "idle"]
    /\ pold = [p \in Pubs |-> NoCh]
    /\ pev = [p \in Pubs |-> NoEvent]
    /\ syncMap = [i \in Ids |-> NoCh]
    /\ chBuf = [c \in Pubs |-> FALSE]
    /\ chClosed = [c \in Pubs |-> FALSE]
    /\ panicked = FALSE
    /\ order = <<>>
    /\ wpc = [w \in Pubs |-> "none"]
    /\ wch = [w \in Pubs |-> NoCh]
    /\ wk = [w \in Pubs |-> 0]
    /\ wexit = [w \in Pubs |-> "none"]
    /\ ctx = [c \in Pubs |-> "none"]
    /\ child = [c \in Pubs |-> [k \in 1..MaxCmds |-> "new"]]
    /\ cmdResults = [c \in Pubs |-> <<>>]
    /\ replies = [c \in Pubs |-> <<>>]
    /\ repliesToBeDeleted = [c \in Pubs |-> <<>>]
    /\ rlog = [c \in Pubs |-> <<>>]
    /\ anchored = {}
    /\ threaded = {}
    /\ nextId = 1
    /\ msgs = <<>>

\* every event is about source message 1
CoalescerInit == CoalescerStart /\ pid = [p \in Pubs |-> 1]

pubVars == <<ppc, pold, pev, pid>>
chanVars == <<chBuf, chClosed, panicked>>
workerVars == <<wpc, wch, wk, wexit>>
eventVars == <<cmdResults, replies, repliesToBeDeleted, rlog>>
remoteVars == <<anchored, threaded, nextId, msgs>>

\* ---- publisher: storeLatestEventForMessageID / storeToSyncMap ----

\* mutant of onMessageEvent: the mailbox is handed on without its event
onMessageEventEmpty(p, e) ==
    /\ ppc[p] = "idle"
    /\ \A q \in Pubs : q < p => ppc[q] # "idle"
    /\ ppc' = [ppc EXCEPT ![p] = "los"]
    /\ pev' = [pev EXCEPT ![p] = e]
    /\ UNCHANGED <<pold, pid, syncMap, chanVars, order, workerVars, ctx,
                   child, eventVars, remoteVars>>
    /\ UNCHANGED exceptCoalescer

\* The gateway delivers events in order; each handler runs in a goroutine of
\* its own.  ch := make(chan any, 1); ch <- e
onMessageEvent(p, e) ==
    /\ ppc[p] = "idle"
    /\ \A q \in Pubs : q < p => ppc[q] # "idle"
    /\ ppc' = [ppc EXCEPT ![p] = "los"]
    /\ pev' = [pev EXCEPT ![p] = e]
    /\ chBuf' = [chBuf EXCEPT ![p] = TRUE]
    /\ UNCHANGED <<pold, pid, syncMap, chClosed, panicked, order, workerVars, ctx,
                   child, eventVars, remoteVars>>
    /\ UNCHANGED exceptCoalescer

\* mutant of LoadOrStore: the map is keyed by a constant instead of the id
LoadOrStoreOneKey(p) ==
    /\ ppc[p] = "los"
    /\ IF syncMap[1] = NoCh
       THEN /\ syncMap' = [syncMap EXCEPT ![1] = p]
            /\ order' = Append(order, p)
            /\ ppc' = [ppc EXCEPT ![p] = "done"]
            /\ wpc' = [wpc EXCEPT ![p] = "load"]
            /\ UNCHANGED pold
       ELSE /\ pold' = [pold EXCEPT ![p] = syncMap[1]]
            /\ ppc' = [ppc EXCEPT ![p] = "cas"]
            /\ UNCHANGED <<syncMap, order, wpc>>
    /\ UNCHANGED <<pev, pid, chanVars, wch, wk, wexit, ctx, child, eventVars,
                   remoteVars>>
    /\ UNCHANGED exceptCoalescer

\* m.LoadOrStore(k, v): not loaded => newly stored, storeToSyncMap returns
\* (zero, true) and the caller runs `go q.processEventsForMessageID(id)`.
LoadOrStore(p) ==
    /\ ppc[p] = "los"
    /\ IF syncMap[pid[p]] = NoCh
       THEN /\ syncMap' = [syncMap EXCEPT ![pid[p]] = p]
            /\ order' = Append(order, p)
            /\ ppc' = [ppc EXCEPT ![p] = "done"]
            /\ wpc' = [wpc EXCEPT ![p] = "load"]
            /\ UNCHANGED pold
       ELSE /\ pold' = [pold EXCEPT ![p] = syncMap[pid[p]]]
            /\ ppc' = [ppc EXCEPT ![p] = "cas"]
            /\ UNCHANGED <<syncMap, order, wpc>>
    /\ UNCHANGED <<pev, pid, chanVars, wch, wk, wexit, ctx, child, eventVars,
                   remoteVars>>
    /\ UNCHANGED exceptCoalescer

\* mutant of CompareAndSwap: m.Store(k, v), whatever the entry has become
StoreAfterLoad(p) ==
    /\ ppc[p] = "cas"
    /\ syncMap' = [syncMap EXCEPT ![pid[p]] = p]
    /\ order' = Append(order, p)
    /\ ppc' = [ppc EXCEPT ![p] = "close"]
    /\ UNCHANGED <<pold, pev, pid, chanVars, workerVars, ctx, child, eventVars,
                   remoteVars>>
    /\ UNCHANGED exceptCoalescer

\* mutant of CompareAndSwap: a swap counts as newly stored, so the caller
\* spawns a worker and closes nothing
CompareAndSwapStored(p) ==
    /\ ppc[p] = "cas"
    /\ IF syncMap[pid[p]] = pold[p]
       THEN /\ syncMap' = [syncMap EXCEPT ![pid[p]] = p]
            /\ order' = Append(order, p)
            /\ ppc' = [ppc EXCEPT ![p] = "done"]
            /\ wpc' = [wpc EXCEPT ![p] = "load"]
            /\ pold' = [pold EXCEPT ![p] = NoCh]
       ELSE /\ ppc' = [ppc EXCEPT ![p] = "los"]
            /\ pold' = [pold EXCEPT ![p] = NoCh]
            /\ UNCHANGED <<syncMap, order, wpc>>
    /\ UNCHANGED <<pev, pid, chanVars, wch, wk, wexit, ctx, child, eventVars,
                   remoteVars>>
    /\ UNCHANGED exceptCoalescer

\* m.CompareAndSwap(k, oldAny, v): swapped => return (old, false); otherwise
\* try again from the beginning.
CompareAndSwap(p) ==
    /\ ppc[p] = "cas"
    /\ IF syncMap[pid[p]] = pold[p]
       THEN /\ syncMap' = [syncMap EXCEPT ![pid[p]] = p]
            /\ order' = Append(order, p)
            /\ ppc' = [ppc EXCEPT ![p] = "close"]
            /\ UNCHANGED pold
       ELSE /\ ppc' = [ppc EXCEPT ![p] = "los"]
            /\ pold' = [pold EXCEPT ![p] = NoCh]
            /\ UNCHANGED <<syncMap, order>>
    /\ UNCHANGED <<pev, pid, chanVars, workerVars, ctx, child, eventVars,
                   remoteVars>>
    /\ UNCHANGED exceptCoalescer

\* mutant of CloseOld: the replaced mailbox is not closed
CloseOldOmitted(p) ==
    /\ ppc[p] = "close"
    /\ ppc' = [ppc EXCEPT ![p] = "done"]
    /\ UNCHANGED <<pold, pev, pid, syncMap, chanVars, order, workerVars, ctx, child,
                   eventVars, remoteVars>>
    /\ UNCHANGED exceptCoalescer

\* close(old)
CloseOld(p) ==
    /\ ppc[p] = "close"
    /\ ppc' = [ppc EXCEPT ![p] = "done"]
    /\ IF chClosed[pold[p]]
       THEN /\ panicked' = TRUE
            /\ UNCHANGED chClosed
       ELSE /\ chClosed' = [chClosed EXCEPT ![pold[p]] = TRUE]
            /\ UNCHANGED panicked
    /\ UNCHANGED <<pold, pev, pid, syncMap, chBuf, order, workerVars, ctx, child,
                   eventVars, remoteVars>>
    /\ UNCHANGED exceptCoalescer

\* ---- worker: processEventsForMessageID ----

\* Position after the event was classified and ExecuteCmds returned:
\* future.Await over an empty sequence yields nothing; a Create event's reply
\* futures are future.NewValue(empty) and need no REST call.
AfterCmds(e) == IF e.type = "Create" THEN "cad" ELSE "awaitReplies"
AfterRecv(e) == IF e.n > 0 THEN "awaitCmds" ELSE AfterCmds(e)
AfterReplies(e) ==
    IF e.type = "Update" /\ e.thread THEN "awaitDel" ELSE "cad"

Exit(w, why) ==
    /\ wpc' = [wpc EXCEPT ![w] = "done"]
    /\ wexit' = [wexit EXCEPT ![w] = why]

\* ch, err := loadFromSyncMap(&q.syncMap, id); err != nil => return
WLoad(w) ==
    /\ wpc[w] = "load"
    /\ IF syncMap[pid[w]] = NoCh
       THEN /\ Exit(w, "loadfail")
            /\ UNCHANGED <<wch, wk>>
       ELSE /\ wch' = [wch EXCEPT ![w] = syncMap[pid[w]]]
            /\ wpc' = [wpc EXCEPT ![w] = "recv"]
            /\ UNCHANGED <<wk, wexit>>
    /\ UNCHANGED <<pubVars, syncMap, chanVars, order, ctx, child, eventVars,
                   remoteVars>>
    /\ UNCHANGED exceptCoalescer

\* mutant of WReceive: the worker removes the map entry when it receives
WReceiveDeletes(w) ==
    LET c == wch[w] IN
    /\ wpc[w] = "recv"
    /\ chBuf[c] \/ chClosed[c]
    /\ IF chBuf[c]
       THEN /\ chBuf' = [chBuf EXCEPT ![c] = FALSE]
            /\ ctx' = [ctx EXCEPT ![c] = "live"]
            /\ wpc' = [wpc EXCEPT ![w] = AfterRecv(pev[c])]
            /\ wk' = [wk EXCEPT ![w] = 1]
            /\ syncMap' = [syncMap EXCEPT ![pid[w]] = IF @ = c THEN NoCh ELSE @]
            /\ UNCHANGED wexit
       ELSE /\ Exit(w, "closedrecv")
            /\ UNCHANGED <<chBuf, ctx, wk, syncMap>>
    /\ UNCHANGED <<pubVars, chClosed, panicked, order, wch, child,
                   eventVars, remoteVars>>
    /\ UNCHANGED exceptCoalescer

\* e, ok := <-ch (a closed mailbox still yields its buffered event; closed and
\* empty => return); ctx := contextFromChannel(ch); classify the event and
\* call ExecuteCmds.
WReceive(w) ==
    LET c == wch[w] IN
    /\ wpc[w] = "recv"
    /\ chBuf[c] \/ chClosed[c]
    /\ IF chBuf[c]
       THEN /\ chBuf' = [chBuf EXCEPT ![c] = FALSE]
            /\ ctx' = [ctx EXCEPT ![c] = "live"]
            /\ wpc' = [wpc EXCEPT ![w] = AfterRecv(pev[c])]
            /\ wk' = [wk EXCEPT ![w] = 1]
            /\ UNCHANGED wexit
       ELSE /\ Exit(w, "closedrecv")
            /\ UNCHANGED <<chBuf, ctx, wk>>
    /\ UNCHANGED <<pubVars, syncMap, chClosed, panicked, order, wch, child,
                   eventVars, remoteVars>>
    /\ UNCHANGED exceptCoalescer

\* contextFromChannel's goroutine: <-ch returns once the (emptied) mailbox is
\* closed; cancel()
WatcherFires(c) ==
    /\ ctx[c] = "live"
    /\ chClosed[c]
    /\ ctx' = [ctx EXCEPT ![c] = "fired"]
    /\ UNCHANGED <<pubVars, syncMap, chanVars, order, workerVars, child,
                   eventVars, remoteVars>>
    /\ UNCHANGED exceptCoalescer

\* ---- child processes: executeTarget ----

\* The worker that received event c is inside future.Await(ctx, futures) or
\* beyond it: the futures of the event have been created by future.New.
Started(c) == ctx[c] # "none"

\* executeTarget returns before cmd.Run when the command line does not
\* parse, and is not called for a blank command line without input nor by
\* a future.NewError.  cmd.Run -> cmd.Start: returns ctx.Err() without
\* spawning when the token has already fired at its check; the token may
\* also fire between the check and the fork.
ChildStart(c, k) ==
    /\ Started(c)
    /\ k <= pev[c].n
    /\ child[c][k] = "new"
    /\ \E s \in (IF \/ k \in pev[c].bad \cup pev[c].help
                   \/ ExecuteCmds(pev[c])[k].new = "NewError"
                THEN {"notrun"}
                ELSE IF ctx[c] = "fired" THEN {"notrun", "running"}
                ELSE {"running"}) :
           child' = [child EXCEPT ![c][k] = s]
    /\ UNCHANGED <<pubVars, syncMap, chanVars, order, workerVars, ctx,
                   eventVars, remoteVars>>
    /\ UNCHANGED exceptCoalescer

\* cmd.Cancel: syscall.Kill(-cmd.Process.Pid, syscall.SIGINT), called by
\* os/exec when the command's context is done while the child runs.
ChildInterrupt(c, k) ==
    /\ child[c][k] = "running"
    /\ ctx[c] = "fired"
    /\ child' = [child EXCEPT ![c][k] = "signalled"]
    /\ UNCHANGED <<pubVars, syncMap, chanVars, order, workerVars, ctx,
                   eventVars, remoteVars>>
    /\ UNCHANGED exceptCoalescer

\* the child exits (by itself or after the interrupt); cmd.Run returns
ChildExit(c, k) ==
    /\ child[c][k] \in {"running", "signalled"}
    /\ child' = [child EXCEPT ![c][k] = "exited"]
    /\ UNCHANGED <<pubVars, syncMap, chanVars, order, workerVars, ctx,
                   eventVars, remoteVars>>
    /\ UNCHANGED exceptCoalescer

Alive(c, k) == child[c][k] \in {"running", "signalled"}

\* ---- worker: awaiting the fan-out and the reply queries ----

\* cmdResults := future.Await(ctx, executeCmdFutures): results are collected
\* in input order; Result.receive returns the task's result when it is
\* available and ctx.Err() when the token has fired first.  executeTarget
\* returns a normal result also for a child that failed or was not started;
\* for a command line that does not parse it returns nil and an error.
TaskResult(c, k) ==
    LET cmd == ExecuteCmds(pev[c])[k].cmd IN
    IF ExecuteCmds(pev[c])[k].new = "NewError"
    THEN [cmd |-> cmd, Value |-> "nil", Err |-> "channel"]
    ELSE IF k \in pev[c].bad
    THEN [cmd |-> cmd, Value |-> "nil", Err |-> "parse"]
    ELSE IF k \in pev[c].help
    THEN [cmd |-> cmd, Value |-> "help", Err |-> "nil"]
    ELSE [cmd |-> cmd, Value |-> "result", Err |-> "nil"]

WAwaitCmd(w) ==
    LET c == wch[w]
        k == wk[w]
    IN
    /\ wpc[w] = "awaitCmds"
    /\ \/ /\ child[c][k] \in {"exited", "notrun"}
          /\ cmdResults' = [cmdResults EXCEPT ![c] = Append(@, TaskResult(c, k))]
       \/ /\ ctx[c] = "fired"
          /\ cmdResults' = [cmdResults EXCEPT ![c] =
                                Append(@, [cmd |-> k, Value |-> "nil", Err |-> "canceled"])]
    /\ IF k < pev[c].n
       THEN /\ wk' = [wk EXCEPT ![w] = k + 1]
            /\ UNCHANGED wpc
       ELSE /\ wk' = [wk EXCEPT ![w] = 1]
            /\ wpc' = [wpc EXCEPT ![w] = AfterCmds(pev[c])]
    /\ UNCHANGED <<pubVars, syncMap, chanVars, order, wch, wexit, ctx, child,
                   replies, repliesToBeDeleted, rlog, remoteVars>>
    /\ UNCHANGED exceptCoalescer

\* GetReplies: bot replies in the source channel that reference the message
GetReplies(c) == SortedSeq({r \in anchored : msgs[r].source = pid[c]})

\* GetRepliesInThread: bot messages in the thread channel of the message
GetRepliesInThread(c) == SortedSeq({r \in threaded : msgs[r].source = pid[c]})

\* the primary reply set an event asks for
PrimaryQuery(c) ==
    IF pev[c].type = "Update" /\ pev[c].thread
    THEN GetRepliesInThread(c)
    ELSE GetReplies(c)

\* replies, err := repliesFuture.Await(ctx), and then
\* repliesToBeDeleted, err := repliesToBeDeletedFuture.Await(ctx): the
\* deferred GetMessages call succeeds, or the token has fired and err is
\* context.Canceled (the sequence stays nil).  Only an Update of a message
\* with a thread has a delete-set to query.
WAwaitReplies(w) ==
    LET c == wch[w] IN
    /\ wpc[w] \in {"awaitReplies", "awaitDel"}
    /\ IF wpc[w] = "awaitReplies"
       THEN /\ replies' = [replies EXCEPT ![c] =
                              IF ctx[c] = "fired" THEN @ ELSE PrimaryQuery(c)]
            /\ wpc' = [wpc EXCEPT ![w] = AfterReplies(pev[c])]
            /\ UNCHANGED repliesToBeDeleted
       ELSE /\ repliesToBeDeleted' = [repliesToBeDeleted EXCEPT ![c] =
                              IF ctx[c] = "fired" THEN @ ELSE GetReplies(c)]
            /\ wpc' = [wpc EXCEPT ![w] = "cad"]
            /\ UNCHANGED replies
    /\ UNCHANGED <<pubVars, syncMap, chanVars, order, wch, wk, wexit, ctx,
                   child, cmdResults, rlog, remoteVars>>
    /\ UNCHANGED exceptCoalescer

\* a reply query fails with an error other than context.Canceled (REST error
\* or REST timeout): slog.Error(...); return
WReplyQueryFails(w) ==
    /\ wpc[w] \in {"awaitReplies", "awaitDel"}
    /\ ctx[wch[w]] # "fired"
    /\ Exit(w, "queryfail")
    /\ UNCHANGED <<pubVars, syncMap, chanVars, order, wch, wk, ctx, child,
                   eventVars, remoteVars>>
    /\ UNCHANGED exceptCoalescer

\* mutant of WCompareAndDelete: a superseded worker closes its mailbox
WCompareAndDeleteCloses(w) ==
    /\ wpc[w] = "cad"
    /\ IF syncMap[pid[w]] = wch[w]
       THEN /\ syncMap' = [syncMap EXCEPT ![pid[w]] = NoCh]
            /\ wpc' = [wpc EXCEPT ![w] = "zip"]
            /\ wk' = [wk EXCEPT ![w] = 1]
            /\ UNCHANGED chanVars
       ELSE /\ wpc' = [wpc EXCEPT ![w] = "load"]
            /\ IF chClosed[wch[w]]
               THEN panicked' = TRUE /\ UNCHANGED chClosed
               ELSE chClosed' = [chClosed EXCEPT ![wch[w]] = TRUE] /\ UNCHANGED panicked
            /\ UNCHANGED <<syncMap, wk, chBuf>>
    /\ UNCHANGED <<pubVars, order, wch, wexit, ctx, child, eventVars, remoteVars>>
    /\ UNCHANGED exceptCoalescer

\* mutant of WCompareAndDelete: q.syncMap.Delete(id), whatever the entry is
WCompareAndDeleteBlind(w) ==
    /\ wpc[w] = "cad"
    /\ syncMap' = [syncMap EXCEPT ![pid[w]] = NoCh]
    /\ wpc' = [wpc EXCEPT ![w] = "zip"]
    /\ wk' = [wk EXCEPT ![w] = 1]
    /\ UNCHANGED <<pubVars, chanVars, order, wch, wexit, ctx, child,
                   eventVars, remoteVars>>
    /\ UNCHANGED exceptCoalescer

\* mutant of WCompareAndDelete: the worker returns when it was superseded
WCompareAndDeleteReturns(w) ==
    /\ wpc[w] = "cad"
    /\ IF syncMap[pid[w]] = wch[w]
       THEN /\ syncMap' = [syncMap EXCEPT ![pid[w]] = NoCh]
            /\ wpc' = [wpc EXCEPT ![w] = "zip"]
            /\ wk' = [wk EXCEPT ![w] = 1]
            /\ UNCHANGED wexit
       ELSE /\ Exit(w, "superseded")
            /\ UNCHANGED <<syncMap, wk>>
    /\ UNCHANGED <<pubVars, chanVars, order, wch, ctx, child,
                   eventVars, remoteVars>>
    /\ UNCHANGED exceptCoalescer

\* deleted := q.syncMap.CompareAndDelete(id, ch); not deleted => next
\* iteration of the loop
WCompareAndDelete(w) ==
    /\ wpc[w] = "cad"
    /\ IF syncMap[pid[w]] = wch[w]
       THEN /\ syncMap' = [syncMap EXCEPT ![pid[w]] = NoCh]
            /\ wpc' = [wpc EXCEPT ![w] = "zip"]
            /\ wk' = [wk EXCEPT ![w] = 1]
       ELSE /\ wpc' = [wpc EXCEPT ![w] = "load"]
            /\ UNCHANGED <<syncMap, wk>>
    /\ UNCHANGED <<pubVars, chanVars, order, wch, wexit, ctx, child,
                   eventVars, remoteVars>>
    /\ UNCHANGED exceptCoalescer

\* ---- worker: reconciliation ----

\* the pairs of xiter.Zip: as long as the shorter sequence
Zip(seqT, seqU) ==
    [k \in 1..Min(Len(seqT), Len(seqU)) |->
        [V1 |-> seqT[k], OK1 |-> TRUE, V2 |-> seqU[k], OK2 |-> TRUE]]

\* xiter.ZipLongest(seqT, seqU): pairs with presence flags, as long as the
\* longer sequence; a missing value is the zero value
ZipLongest(seqT, seqU) ==
    [k \in 1..Max(Len(seqT), Len(seqU)) |->
        [V1 |-> IF k <= Len(seqT) THEN seqT[k] ELSE [cmd |-> 0, Value |-> "nil", Err |-> "nil"],
         OK1 |-> k <= Len(seqT),
         V2 |-> IF k <= Len(seqU) THEN seqU[k] ELSE 0,
         OK2 |-> k <= Len(seqU)]]

Zipped(c) == ZipLongest(cmdResults[c], replies[c])


\* The call the loop body makes for the pair z.  UpdateMessage and SendReply
\* return future.NewValue(nil), without any REST call, when z.V1.Value is nil.
ZipCall(z) ==
    IF z.OK1 /\ z.OK2
    THEN [op |-> IF z.V1.Value = "nil" THEN "noop" ELSE "edit",
          reply |-> z.V2, result |-> z.V1.cmd]
    ELSE IF z.OK1
    THEN [op |-> IF z.V1.Value = "nil" THEN "noop" ELSE "create",
          reply |-> 0, result |-> z.V1.cmd]
    ELSE [op |-> "delete", reply |-> z.V2, result |-> 0]

DeleteCall(r) == [op |-> "delete", reply |-> r, result |-> 0]

\* mutant of SendReply: the reply always carries the message reference
SendReplyReferenced(e) ==
    [channel |-> IF e.thread THEN "thread" ELSE "source", reference |-> TRUE]

\* SendReply: channelID = e.MessageID (the thread) and no reference when the
\* message has the has-thread flag; otherwise channelID = e.ChannelID and
\* SetMessageReferenceByID(e.MessageID).
SendReply(e) ==
    [channel |-> IF e.thread THEN "thread" ELSE "source", reference |-> ~e.thread]

\* UpdateMessage(m.ChannelID, m.ID, ...): the channel of the reply itself
UpdateMessage(reply) == msgs[reply].channel

\* DeleteMessage(e.ChannelID, id): the channel of the source message
DeleteMessage(e) == "source"

\* the channel a call of the reconciliation for event c is addressed to
Channel(c, call) ==
    CASE call.op = "edit" -> UpdateMessage(call.reply)
      [] call.op = "create" -> SendReply(pev[c]).channel
      [] call.op = "delete" -> DeleteMessage(pev[c])
      [] OTHER -> "none"

\* Outcome of a REST call made under the token of event c: an edit or a
\* delete finds the reply only in the channel the reply lives in;
\* CreateMessage always finds its channel.
CallSucceeds(c, call) ==
    /\ ctx[c] # "fired"
    /\ call.op \in {"edit", "delete"} =>
          /\ call.reply \in anchored \cup threaded
          /\ msgs[call.reply].channel = Channel(c, call)

\* A created reply is found by GetReplies when it is in the source channel
\* and references the message (type Reply), by GetRepliesInThread when it is
\* in the thread and references nothing (type Default), by neither otherwise.
RemoteEffect(c, call) ==
    CASE call.op = "create" ->
           LET m == SendReply(pev[c]) IN
           /\ anchored' = IF m.channel = "source" /\ m.reference
                          THEN anchored \cup {nextId} ELSE anchored
           /\ threaded' = IF m.channel = "thread" /\ ~m.reference
                          THEN threaded \cup {nextId} ELSE threaded
           /\ nextId' = nextId + 1
           /\ msgs' = Append(msgs, [source |-> pid[c], channel |-> m.channel,
                                    reference |-> m.reference])
      [] call.op = "delete" ->
           /\ anchored' = anchored \ {call.reply}
           /\ threaded' = threaded \ {call.reply}
           /\ UNCHANGED <<nextId, msgs>>
      [] OTHER -> UNCHANGED remoteVars

LogEntry(stage, call, ok) ==
    [stage |-> stage, op |-> call.op, reply |-> call.reply,
     result |-> call.result, ok |-> ok]

\* issue one call of the reconciliation for worker w; an error ends the worker
Issue(w, stage, call) ==
    LET c == wch[w] IN
    IF call.op = "noop"
    THEN /\ wk' = [wk EXCEPT ![w] = @ + 1]
         /\ UNCHANGED <<wpc, wexit, rlog, remoteVars>>
    ELSE IF CallSucceeds(c, call)
    THEN /\ RemoteEffect(c, call)
         /\ rlog' = [rlog EXCEPT ![c] = Append(@, LogEntry(stage, call, TRUE))]
         /\ wk' = [wk EXCEPT ![w] = @ + 1]
         /\ UNCHANGED <<wpc, wexit>>
    ELSE /\ rlog' = [rlog EXCEPT ![c] = Append(@, LogEntry(stage, call, FALSE))]
         /\ Exit(w, "restfail")
         /\ UNCHANGED <<wk, remoteVars>>

\* for z := range xiter.ZipLongest(cmdResults, replies) { ... }
WZip(w) ==
    LET c == wch[w] IN
    /\ wpc[w] = "zip"
    /\ IF wk[w] > Len(Zipped(c))
       THEN /\ wpc' = [wpc EXCEPT ![w] = "delset"]
            /\ wk' = [wk EXCEPT ![w] = 1]
            /\ UNCHANGED <<wexit, rlog, remoteVars>>
       ELSE Issue(w, "zip", ZipCall(Zipped(c)[wk[w]]))
    /\ UNCHANGED <<pubVars, syncMap, chanVars, order, wch, ctx, child,
                   cmdResults, replies, repliesToBeDeleted>>
    /\ UNCHANGED exceptCoalescer

\* for reply := range repliesToBeDeleted { DeleteMessage(...) }; return
WDeleteSet(w) ==
    LET c == wch[w] IN
    /\ wpc[w] = "delset"
    /\ IF wk[w] > Len(repliesToBeDeleted[c])
       THEN /\ Exit(w, "reconciled")
            /\ UNCHANGED <<wk, rlog, remoteVars>>
       ELSE Issue(w, "delset", DeleteCall(repliesToBeDeleted[c][wk[w]]))
    /\ UNCHANGED <<pubVars, syncMap, chanVars, order, wch, ctx, child,
                   cmdResults, replies, repliesToBeDeleted>>
    /\ UNCHANGED exceptCoalescer

\* the call worker w is about to issue, if any
PendingCall(w) ==
    LET c == wch[w] IN
    IF wpc[w] = "zip" /\ wk[w] <= Len(Zipped(c))
    THEN ZipCall(Zipped(c)[wk[w]])
    ELSE IF wpc[w] = "delset" /\ wk[w] <= Len(repliesToBeDeleted[c])
    THEN DeleteCall(repliesToBeDeleted[c][wk[w]])
    ELSE [op |-> "noop", reply |-> 0, result |-> 0]

\* a reconciliation REST call fails (REST error or REST timeout):
\* slog.Error(...); return
WRestCallFails(w) ==
    /\ wpc[w] \in {"zip", "delset"}
    /\ PendingCall(w).op # "noop"
    /\ rlog' = [rlog EXCEPT ![wch[w]] =
                   Append(@, LogEntry(wpc[w], PendingCall(w), FALSE))]
    /\ Exit(w, "restfail")
    /\ UNCHANGED <<pubVars, syncMap, chanVars, order, wch, wk, ctx, child,
                   cmdResults, replies, repliesToBeDeleted, remoteVars>>
    /\ UNCHANGED exceptCoalescer

\* ---- pkg/future: New, NewDeferred, makeRunnerAndReceiver, receive ----

Awaiters == 1..NAwait
Runners == 0..NAwait   \* 0: started by New; a: started by awaiter a

Zero == [Value |-> "zero", Err |-> "nil"]

\* what a task body does: it returns a value, returns an error, or panics
\* with a string or with an error value (panic: the message of the value,
\* "nil" when the body does not panic)
TaskBodies ==
    {[Value |-> "v", Err |-> "nil", panic |-> "nil"],
     [Value |-> "zero", Err |-> "errTest", panic |-> "nil"],
     [Value |-> "zero", Err |-> "nil", panic |-> "panic!"],
     [Value |-> "zero", Err |-> "nil", panic |-> "errPanic"]}

NoTask == [Value |-> "zero", Err |-> "nil", panic |-> "nil"]

\* mutant of recover: a value receiver, the stored error is lost
recoverByValue(r, v) == r

\* Result.recover, deferred by the runner: `case nil:` leaves the result,
\* `case error: r.Err = v`, `default: r.Err = fmt.Errorf("%+v", v)`; either
\* way the message of the error is the panic value
recover(r, v) ==
    IF v = "nil" THEN r ELSE [r EXCEPT !.Err = v]

\* runner: result.Value, result.Err = task(ctx) under the deferred
\* result.recover(); a panicking body assigns nothing
RunBody(b, zero) ==
    recover(IF b.panic = "nil" THEN [Value |-> b.Value, Err |-> b.Err] ELSE zero,
            b.panic)

Canceled == "context canceled"

FutureIdle ==
    /\ fkind = "none"
    /\ task = NoTask
    /\ rpc = [r \in Runners |-> "none"]
    /\ rres = [r \in Runners |-> Zero]
    /\ taskRuns = 0
    /\ fclosed = FALSE
    /\ startOnce = FALSE
    /\ recvOnce = "fresh"
    /\ fresult = Zero
    /\ apc = [a \in Awaiters |-> "idle"]
    /\ actx = [a \in Awaiters |-> FALSE]
    /\ aout = [a \in Awaiters |-> Zero]

\* New: runner, receiver := makeRunnerAndReceiver(task); go runner(ctx)
\* NewDeferred: the runner is started by the first call of the future
FutureInit ==
    /\ fkind \in {"New", "NewDeferred"}
    /\ task \in TaskBodies
    /\ rpc = [r \in Runners |-> IF r = 0 /\ fkind = "New" THEN "spawned" ELSE "none"]
    /\ rres = [r \in Runners |-> Zero]
    /\ taskRuns = 0
    /\ fclosed = FALSE
    /\ startOnce = FALSE
    /\ recvOnce = "fresh"
    /\ fresult = Zero
    /\ apc = [a \in Awaiters |-> "idle"]
    /\ actx = [a \in Awaiters |-> FALSE]
    /\ aout = [a \in Awaiters |-> Zero]

\* a goroutine calls f(ctx)
AwaitCall(a) ==
    /\ fkind # "none"
    /\ apc[a] = "idle"
    /\ apc' = [apc EXCEPT ![a] = IF fkind = "NewDeferred" THEN "start" ELSE "recv"]
    /\ UNCHANGED <<fkind, task, rpc, rres, taskRuns, fclosed, startOnce, recvOnce,
                   fresult, actx, aout>>
    /\ UNCHANGED exceptFuture

\* the context of awaiter a is cancelled or times out
CtxDone(a) ==
    /\ fkind # "none"
    /\ apc[a] # "ret"
    /\ ~actx[a]
    /\ actx' = [actx EXCEPT ![a] = TRUE]
    /\ UNCHANGED <<fkind, task, rpc, rres, taskRuns, fclosed, startOnce, recvOnce,
                   fresult, apc, aout>>
    /\ UNCHANGED exceptFuture

\* mutant of DeferredStart: every call starts the runner
DeferredStartEach(a) ==
    /\ apc[a] = "start"
    /\ rpc' = [rpc EXCEPT ![a] = "spawned"]
    /\ startOnce' = TRUE
    /\ apc' = [apc EXCEPT ![a] = "recv"]
    /\ UNCHANGED <<fkind, task, rres, taskRuns, fclosed, recvOnce, fresult, actx, aout>>
    /\ UNCHANGED exceptFuture

\* NewDeferred: once.Do(func() { go runner(ctx) })
DeferredStart(a) ==
    /\ apc[a] = "start"
    /\ IF startOnce
       THEN UNCHANGED <<rpc, startOnce>>
       ELSE /\ rpc' = [rpc EXCEPT ![a] = "spawned"]
            /\ startOnce' = TRUE
    /\ apc' = [apc EXCEPT ![a] = "recv"]
    /\ UNCHANGED <<fkind, task, rres, taskRuns, fclosed, recvOnce, fresult, actx, aout>>
    /\ UNCHANGED exceptFuture

\* runner: result.Value, result.Err = task(ctx), with the deferred
\* result.recover(); the runner then blocks in `ch <- result`
RunTask(r) ==
    /\ rpc[r] = "spawned"
    /\ rres' = [rres EXCEPT ![r] = RunBody(task, Zero)]
    /\ taskRuns' = taskRuns + 1
    /\ rpc' = [rpc EXCEPT ![r] = "sending"]
    /\ UNCHANGED <<fkind, task, fclosed, startOnce, recvOnce, fresult, apc, actx, aout>>
    /\ UNCHANGED exceptFuture

\* runner: the send was received; the deferred close(ch)
RunnerClose(r) ==
    /\ rpc[r] = "sent"
    /\ rpc' = [rpc EXCEPT ![r] = "done"]
    /\ fclosed' = TRUE
    /\ UNCHANGED <<fkind, task, rres, taskRuns, startOnce, recvOnce, fresult, apc,
                   actx, aout>>
    /\ UNCHANGED exceptFuture

\* mutant of ReceiverEnter: no sync.Once, every call receives
ReceiverEnterEach(a) ==
    /\ apc[a] = "recv"
    /\ apc' = [apc EXCEPT ![a] = "select"]
    /\ UNCHANGED <<fkind, task, rpc, rres, taskRuns, fclosed, startOnce, recvOnce,
                   fresult, actx, aout>>
    /\ UNCHANGED exceptFuture

\* mutant of ReceiverEnter: a captured cancellation error is not kept, the
\* next call receives again
ReceiverEnterRetry(a) ==
    /\ apc[a] = "recv"
    /\ recvOnce \in {"fresh", "done"}
    /\ IF recvOnce = "fresh" \/ fresult.Err = Canceled
       THEN /\ recvOnce' = "busy"
            /\ apc' = [apc EXCEPT ![a] = "select"]
            /\ UNCHANGED aout
       ELSE /\ aout' = [aout EXCEPT ![a] = fresult]
            /\ apc' = [apc EXCEPT ![a] = "ret"]
            /\ UNCHANGED recvOnce
    /\ UNCHANGED <<fkind, task, rpc, rres, taskRuns, fclosed, startOnce, fresult, actx>>
    /\ UNCHANGED exceptFuture

\* receiver: once.Do(func() { result.receive(ctx, ch) }); return result.Value,
\* result.Err.  The first caller runs receive, a caller arriving meanwhile
\* blocks until it is over, a later caller returns the captured result.
ReceiverEnter(a) ==
    /\ apc[a] = "recv"
    /\ recvOnce \in {"fresh", "done"}
    /\ IF recvOnce = "fresh"
       THEN /\ recvOnce' = "busy"
            /\ apc' = [apc EXCEPT ![a] = "select"]
            /\ UNCHANGED aout
       ELSE /\ aout' = [aout EXCEPT ![a] = fresult]
            /\ apc' = [apc EXCEPT ![a] = "ret"]
            /\ UNCHANGED recvOnce
    /\ UNCHANGED <<fkind, task, rpc, rres, taskRuns, fclosed, startOnce, fresult, actx>>
    /\ UNCHANGED exceptFuture

\* receive leaves with the result r: the Once is done and f(ctx) returns
Return(a, r) ==
    /\ fresult' = r
    /\ recvOnce' = "done"
    /\ aout' = [aout EXCEPT ![a] = r]
    /\ apc' = [apc EXCEPT ![a] = "ret"]

\* `case result, ok := <-ch`: the rendezvous with a runner blocked in its
\* send, or ok = false on the closed channel (the result is left as it is)
ReceiveFromCh(a) ==
    \/ \E r \in Runners :
          /\ rpc[r] = "sending"
          /\ rpc' = [rpc EXCEPT ![r] = "sent"]
          /\ Return(a, rres[r])
          /\ UNCHANGED fclosed
    \/ /\ fclosed
       /\ Return(a, fresult)
       /\ UNCHANGED <<rpc, fclosed>>

\* Result.receive, outer select: the channel case
Receive(a) ==
    /\ apc[a] = "select"
    /\ ReceiveFromCh(a)
    /\ UNCHANGED <<fkind, task, rres, taskRuns, startOnce, actx>>
    /\ UNCHANGED exceptFuture

\* Result.receive, outer select: `case <-ctx.Done()`
ReceiveCtxDone(a) ==
    /\ apc[a] = "select"
    /\ actx[a]
    /\ apc' = [apc EXCEPT ![a] = "ctxdone"]
    /\ UNCHANGED <<fkind, task, rpc, rres, taskRuns, fclosed, startOnce, recvOnce,
                   fresult, actx, aout>>
    /\ UNCHANGED exceptFuture

\* mutant of ReceiveOrDefault: no inner select, a done context gives its error
ReceiveOrCanceled(a) ==
    /\ apc[a] = "ctxdone"
    /\ Return(a, [fresult EXCEPT !.Err = Canceled])
    /\ UNCHANGED <<rpc, fclosed>>
    /\ UNCHANGED <<fkind, task, rres, taskRuns, startOnce, actx>>
    /\ UNCHANGED exceptFuture

\* Result.receive, inner select: the result if it is available, otherwise
\* (default) r.Err = ctx.Err()
ReceiveOrDefault(a) ==
    /\ apc[a] = "ctxdone"
    /\ IF fclosed \/ \E r \in Runners : rpc[r] = "sending"
       THEN ReceiveFromCh(a)
       ELSE /\ Return(a, [fresult EXCEPT !.Err = Canceled])
            /\ UNCHANGED <<rpc, fclosed>>
    /\ UNCHANGED <<fkind, task, rres, taskRuns, startOnce, actx>>
    /\ UNCHANGED exceptFuture

FutureCalls == \E a \in Awaiters : AwaitCall(a) \/ CtxDone(a)

FutureSteps ==
    \/ \E a \in Awaiters :
          \/ DeferredStart(a)
          \/ ReceiverEnter(a)
          \/ Receive(a)
          \/ ReceiveCtxDone(a)
          \/ ReceiveOrDefault(a)
    \/ \E r \in Runners : RunTask(r) \/ RunnerClose(r)

FutureNext == FutureCalls \/ FutureSteps

\* ---- pkg/shellwords: Split, Escape, Join ----
\* A string is the sequence of its characters.  "a" stands for the letters
\* and digits, " " and "\n" for the white space.
Chars == {"a", " ", "\n", "'", "\"", "\\"}

\* \s of the regular expressions
Space == {" ", "\t", "\n", "\f", "\r"}

StringsUpTo(n) == UNION {[1..m -> Chars] : m \in 0..n}

\* concatenation of a sequence of strings
RECURSIVE Concat(_)
Concat(ss) == IF ss = <<>> THEN <<>> ELSE Head(ss) \o Concat(Tail(ss))

\* regexp.MustCompile("[^-A-Za-z0-9_.,:+/@\n]"): the characters Escape
\* leaves alone
Plain == {"a", "-", "_", ".", ",", ":", "+", "/", "@", "\n"}

\* re.ReplaceAllString(input, `\$0`)
EscapeChars(str) ==
    Concat([i \in 1..Len(str) |->
               IF str[i] \in Plain THEN <<str[i]>> ELSE <<"\\", str[i]>>])

\* strings.ReplaceAll(escaped, "\n", "'\n'")
QuoteNewlines(str) ==
    Concat([i \in 1..Len(str) |->
               IF str[i] = "\n" THEN <<"'", "\n", "'">> ELSE <<str[i]>>])

\* mutant of Escape: a newline is left as it is
EscapeKeepsNewline(str) ==
    IF str = <<>> THEN <<"'", "'">> ELSE EscapeChars(str)

\* func Escape(input string) string
Escape(str) ==
    IF str = <<>> THEN <<"'", "'">> ELSE QuoteNewlines(EscapeChars(str))

\* func Join(inputs []string) string: strings.Join(escaped, " ")
Join(list) ==
    Concat([i \in 1..Len(list) |->
               IF i = 1 THEN Escape(list[i]) ELSE <<" ">> \o Escape(list[i])])

\* \s*: the first position from p on that holds no white space
RECURSIVE SkipSpace(_, _)
SkipSpace(str, p) ==
    IF p <= Len(str) /\ str[p] \in Space THEN SkipSpace(str, p + 1) ELSE p

\* ([^\s\\\'\"]+): the position after the longest run of word characters
RECURSIVE WordEnd(_, _)
WordEnd(str, p) ==
    IF p <= Len(str) /\ str[p] \notin Space \cup {"\\", "'", "\""}
    THEN WordEnd(str, p + 1) ELSE p

\* '([^\']*)': the position of the closing quote, 0 when there is none
RECURSIVE SqClose(_, _)
SqClose(str, p) ==
    IF p > Len(str) THEN 0
    ELSE IF str[p] = "'" THEN p
    ELSE SqClose(str, p + 1)

\* "((?:[^\"\\]|\\.)*)": the position of the closing quote, 0 when the
\* alternative does not match; `.` matches every character but "\n"
RECURSIVE DqClose(_, _)
DqClose(str, p) ==
    IF p > Len(str) THEN 0
    ELSE IF str[p] = "\"" THEN p
    ELSE IF str[p] = "\\"
    THEN IF p + 1 <= Len(str) /\ str[p + 1] # "\n"
         THEN DqClose(str, p + 2) ELSE 0
    ELSE DqClose(str, p + 1)

\* (\s|$)?: one white space or the end of the text, when there is one at p
SepAt(str, p) ==
    IF p > Len(str) THEN [sep |-> TRUE, end |-> p]
    ELSE IF str[p] \in Space THEN [sep |-> TRUE, end |-> p + 1]
    ELSE [sep |-> FALSE, end |-> p]

NoMatch == [kind |-> "none", capture |-> <<>>, sep |-> FALSE, end |-> 0]

Submatch(str, kind, from, to, end) ==
    [kind |-> kind, capture |-> SubSeq(str, from, to),
     sep |-> SepAt(str, end).sep, end |-> SepAt(str, end).end]

\* the leftmost match of re from position p on: the alternatives are tried
\* in the order word, sq, dq, esc, garbage
Match(str, p) ==
    LET q == SkipSpace(str, p) IN
    IF q > Len(str) THEN NoMatch
    ELSE IF WordEnd(str, q) > q
    THEN Submatch(str, "word", q, WordEnd(str, q) - 1, WordEnd(str, q))
    ELSE IF str[q] = "'" /\ SqClose(str, q + 1) > 0
    THEN Submatch(str, "sq", q + 1, SqClose(str, q + 1) - 1, SqClose(str, q + 1) + 1)
    ELSE IF str[q] = "\"" /\ DqClose(str, q + 1) > 0
    THEN Submatch(str, "dq", q + 1, DqClose(str, q + 1) - 1, DqClose(str, q + 1) + 1)
    ELSE IF str[q] = "\\"
    THEN IF q + 1 <= Len(str) /\ str[q + 1] # "\n"
         THEN Submatch(str, "esc", q, q + 1, q + 2)
         ELSE Submatch(str, "esc", q, q, q + 1)
    ELSE Submatch(str, "garbage", q, q, q + 1)

\* reDq.ReplaceAllString(*dq, "$1"), reDq = \\([$`"\\\n]); the grave accent
\* of the class cannot stand in a string of this module and is no character
\* of Chars
RECURSIVE UnescapeDq(_)
UnescapeDq(str) ==
    IF str = <<>> THEN <<>>
    ELSE IF /\ Len(str) >= 2
            /\ str[1] = "\\"
            /\ str[2] \in {"$", "\"", "\\", "\n"}
    THEN <<str[2]>> \o UnescapeDq(SubSeq(str, 3, Len(str)))
    ELSE <<str[1]>> \o UnescapeDq(Tail(str))

\* reEsc.ReplaceAllString(*esc, `$1`), reEsc = \\(.)
RECURSIVE UnescapeEsc(_)
UnescapeEsc(str) ==
    IF str = <<>> THEN <<>>
    ELSE IF Len(str) >= 2 /\ str[1] = "\\" /\ str[2] # "\n"
    THEN <<str[2]>> \o UnescapeEsc(SubSeq(str, 3, Len(str)))
    ELSE <<str[1]>> \o UnescapeEsc(Tail(str))

\* switch { case word != nil: ... }
Token(m) ==
    CASE m.kind = "word" -> m.capture
      [] m.kind = "sq" -> m.capture
      [] m.kind = "dq" -> UnescapeDq(m.capture)
      [] m.kind = "esc" -> UnescapeEsc(m.capture)

\* the ways of cutting a string of length len into n consecutive pieces
Cuts(n, len) ==
    {c \in [0..n -> 0..len] :
        /\ c[0] = 0
        /\ c[n] = len
        /\ \A i \in 1..n : c[i - 1] <= c[i]}

\* the argument lists of at most MaxWords strings, of at most MaxJoinLen
\* characters together
ArgLists ==
    UNION {{[i \in 1..n |-> SubSeq(str, c[i - 1] + 1, c[i])] : c \in Cuts(n, Len(str))} :
              str \in StringsUpTo(MaxJoinLen), n \in 0..MaxWords}

WordsStart(pc0) ==
    /\ swpc = pc0
    /\ at = 1
    /\ words = <<>>
    /\ field = <<>>

WordsIdle == inputs = <<>> /\ input = <<>> /\ WordsStart("idle")

\* a caller is about to split a string, or to join a list and split the
\* command line it gets
WordsInit ==
    \/ /\ inputs = <<>>
       /\ input \in StringsUpTo(MaxInput)
       /\ WordsStart("split")
    \/ /\ inputs \in ArgLists
       /\ input = <<>>
       /\ WordsStart("join")

\* input := Join(inputs)
JoinInputs ==
    /\ swpc = "join"
    /\ input' = Join(inputs)
    /\ swpc' = "split"
    /\ UNCHANGED <<inputs, at, words, field>>
    /\ UNCHANGED exceptWords

\* for _, match := range matches { ... }: one match that is not garbage
SplitMatch ==
    LET m == Match(input, at) IN
    /\ swpc = "split"
    /\ m.kind \notin {"none", "garbage"}
    /\ IF m.sep
       THEN /\ words' = Append(words, field \o Token(m))
            /\ field' = <<>>
       ELSE /\ field' = field \o Token(m)
            /\ UNCHANGED words
    /\ at' = m.end
    /\ UNCHANGED <<inputs, input, swpc>>
    /\ UNCHANGED exceptWords

\* if garbage != nil { return nil, fmt.Errorf("unmatched quote: ...") }
SplitGarbage ==
    /\ swpc = "split"
    /\ Match(input, at).kind = "garbage"
    /\ swpc' = "error"
    /\ words' = <<>>
    /\ UNCHANGED <<inputs, input, at, field>>
    /\ UNCHANGED exceptWords

\* return words, nil
SplitReturn ==
    /\ swpc = "split"
    /\ Match(input, at).kind = "none"
    /\ swpc' = "returned"
    /\ UNCHANGED <<inputs, input, at, words, field>>
    /\ UNCHANGED exceptWords

WordsNext == JoinInputs \/ SplitMatch \/ SplitGarbage \/ SplitReturn

\* ---- pkg/message: the input of a message (ExecuteCmds) ----
\* A file name and the extension are sequences of characters.

MaxAttach == 2

Nil == "<nil>"

\* strings.HasSuffix(s, suffix)
HasSuffix(s, suffix) ==
    /\ Len(suffix) <= Len(s)
    /\ SubSeq(s, Len(s) - Len(suffix) + 1, Len(s)) = suffix

FileNames == {<<"a", ".", "p">>, <<"a", ".", "t">>}
Extensions == {<<>>, <<".", "t">>}

\* an attachment: its name, the bytes behind its URL, and whether the GET
\* gives them (status 200, body read) or fails
Attachments == [Filename : FileNames, body : {"x", "y"}, get : {"ok", "fail"}]

\* a message: its attachments and the text of the first fenced block of its
\* content, Nil when the content has none
InputMessages ==
    [Attachments : UNION {[1..n -> Attachments] : n \in 0..MaxAttach},
     Codeblock : {Nil, "c"}]

NoMessage == [Attachments |-> <<>>, Codeblock |-> Nil]

\* inputFromAttachment: the first attachment whose name has the extension
\* as a suffix is requested; nil, nil when there is none, an error when the
\* request fails, its bytes otherwise
inputFromAttachment(m, ext) ==
    LET match == {k \in 1..Len(m.Attachments) :
                     HasSuffix(m.Attachments[k].Filename, ext)}
    IN IF match = {}
       THEN [input |-> Nil, err |-> FALSE, requested |-> <<>>]
       ELSE LET k == CHOOSE j \in match : \A i \in match : j <= i
                a == m.Attachments[k]
            IN IF a.get = "ok"
               THEN [input |-> a.body, err |-> FALSE, requested |-> <<k>>]
               ELSE [input |-> Nil, err |-> TRUE, requested |-> <<k>>]

\* inputFromCodeblock: the first code block of the content, or nil
inputFromCodeblock(m) == m.Codeblock

InputStart(pc0) == ipc = pc0 /\ stdin = Nil /\ fetched = <<>>

InputIdle == emsg = NoMessage /\ extension = <<>> /\ InputStart("idle")

\* ExecuteCmds is about to detect the input of a message
InputInit ==
    /\ emsg \in InputMessages
    /\ extension \in Extensions
    /\ InputStart("attachment")

\* input, err := inputFromAttachment(restCtx, e, o.AttachmentExtensionToTreatAsInput):
\* the error future on an error, the code block next when input == nil
DetectAttachment ==
    /\ ipc = "attachment"
    /\ LET r == inputFromAttachment(emsg, extension)
       IN /\ fetched' = r.requested
          /\ stdin' = r.input
          /\ ipc' = IF r.err THEN "error"
                    ELSE IF r.input = Nil THEN "codeblock" ELSE "detected"
    /\ UNCHANGED <<emsg, extension>>
    /\ UNCHANGED exceptInput

\* input = inputFromCodeblock(e)
DetectCodeblock ==
    /\ ipc = "codeblock"
    /\ stdin' = inputFromCodeblock(emsg)
    /\ ipc' = "detected"
    /\ UNCHANGED <<emsg, extension, fetched>>
    /\ UNCHANGED exceptInput

InputNext == DetectAttachment \/ DetectCodeblock

\* ---- pkg/message: executeTarget, one execution of the target ----
\* A rune of an output is "a" or "\n".  The code fence (three backticks) is
\* written "~~~" below: a backtick cannot stand in a string of this module.

contentMax == 2000

defaultTimeoutSeconds == 30    \* defaultOptions().TimeoutSeconds

Runes == {"a", "\n"}

\* the byte strings of at most MaxOut runes
Outputs == UNION {[1..n -> Runes] : n \in 0..MaxOut}

\* a piece of text of the content: the text and its number of runes
Lit(str) == [s |-> str, n |-> Len(str)]

RECURSIVE Str(_)
Str(b) == IF b = <<>> THEN "" ELSE Head(b) \o Str(Tail(b))

\* fmt.Sprintf("`%s`\n", shellwords.Join(cli)): n runes of echoed command
EchoPiece(n) == [s |-> "<commandline>", n |-> n]

RECURSIVE RuneCount(_)
\* utf8.RuneCountInString(content)
RuneCount(c) == IF c = <<>> THEN 0 ELSE Head(c).n + RuneCount(Tail(c))

Header == Lit("~~~\n")
Footer == Lit("~~~")

\* the lengths of the echoed command line the model draws: none (a single
\* command), and those that leave a budget of 0..MaxOut runes to the first
\* output of a successful command
EchoLens == {0} \cup {contentMax - Header.n - Footer.n - k : k \in 0..MaxOut}

\* the call: does the command line tokenize, the echo, and the options
Calls ==
    [parses : BOOLEAN, echo : EchoLens, TimeoutSeconds : {0, 1},
     NumberOfLinesToEmbedOutput : 0..MaxLines,
     NumberOfLinesToEmbedUploadedOutput : 0..(MaxLines + 1)]

\* the target: it cannot be started, exits with status 0 or 1 by itself, or
\* runs until it is signalled; and what it writes, at most MaxOut runes on
\* the two streams together
Progs ==
    {p \in [does : {"spawnfail", "exit0", "exit1", "runs"},
            stdout : Outputs, stderr : Outputs] :
        Len(p.stdout) + Len(p.stderr) <= MaxOut}

NoCall == [parses |-> TRUE, echo |-> 0, TimeoutSeconds |-> 0,
           NumberOfLinesToEmbedOutput |-> 0,
           NumberOfLinesToEmbedUploadedOutput |-> 0]
NoProg == [does |-> "exit0", stdout |-> <<>>, stderr |-> <<>>]

ExecStart(pc0) ==
    /\ xpc = pc0
    /\ cwd = "none"
    /\ xctx = "live"
    /\ proc = "none"
    /\ err = "nil"
    /\ content = <<>>
    /\ files = <<>>
    /\ outi = 0
    /\ ret = "none"

ExecIdle == xcall = NoCall /\ xprog = NoProg /\ ExecStart("idle")

\* executeTarget was called; a command line that does not tokenize never
\* reaches the target, and a target that cannot be started writes nothing
ExecInit ==
    /\ xcall \in Calls
    /\ xprog \in Progs
    /\ ~xcall.parses => (xprog = NoProg /\ xcall.echo = 0)
    /\ xprog.does = "spawnfail" => (xprog.stdout = <<>> /\ xprog.stderr = <<>>)
    /\ ExecStart("mkdir")

\* o.ContextWithTimeout: the timeout in force and the cause of the deadline
Timeout(o) ==
    IF o.TimeoutSeconds <= 0 THEN defaultTimeoutSeconds ELSE o.TimeoutSeconds

Cause(o) ==
    "process killed due to timeout of " \o ToString(Timeout(o)) \o " seconds"

RECURSIVE Scan(_, _, _, _, _, _, _, _)
\* the loop of bytesToEmbedAndReader after i runes, with its locals
Scan(b, maxLines, maxRunes, previewLines, i, lineNumber, runeCount, embedEnd) ==
    IF i >= Len(b) THEN [embed |-> b, reader |-> FALSE]
    ELSE LET r == b[i + 1]
             ln == IF r = "\n" THEN lineNumber + 1 ELSE lineNumber
             ee == IF r = "\n" /\ ln = previewLines THEN i + 1 ELSE embedEnd
         IN IF r = "\n" /\ ln > maxLines
            THEN [embed |-> SubSeq(b, 1, ee), reader |-> TRUE]
            ELSE IF runeCount + 1 = maxRunes
                 THEN [embed |-> SubSeq(b, 1, i + 1), reader |-> TRUE]
                 ELSE Scan(b, maxLines, maxRunes, previewLines, i + 1, ln,
                           runeCount + 1, ee)

bytesToEmbedAndReader(b, maxLines, maxRunes, previewLines) ==
    Scan(b, maxLines, maxRunes, previewLines, 0, 0, 0, 0)

\* mutant of XReturn: the directory is removed on the successful path only
XReturnKeepsOnError(r) ==
    /\ ret' = r
    /\ xpc' = "returned"
    /\ cwd' = IF cwd = "exists" /\ r = "result" THEN "removed" ELSE cwd

\* return, with the deferred os.RemoveAll(cwd)
XReturn(r) ==
    /\ ret' = r
    /\ xpc' = "returned"
    /\ cwd' = IF cwd = "exists" THEN "removed" ELSE cwd

\* cwd, err := os.MkdirTemp("", "execute_target")
XMkdirTemp ==
    /\ xpc = "mkdir"
    /\ cwd' = "exists"
    /\ xpc' = "split"
    /\ UNCHANGED <<xcall, xprog, xctx, proc, err, content, files, outi, ret>>
    /\ UNCHANGED exceptExec

\* os.MkdirTemp fails: return nil, err; no directory was made
XMkdirTempFails ==
    /\ xpc = "mkdir"
    /\ XReturn("error")
    /\ UNCHANGED <<xcall, xprog, xctx, proc, err, content, files, outi>>
    /\ UNCHANGED exceptExec

\* args, err := shellwords.Split(commandline): return nil, err on a parse
\* error; otherwise the command line is echoed if asked for and the timeout
\* context is made
XSplit ==
    /\ xpc = "split"
    /\ IF ~xcall.parses
       THEN /\ XReturn("error")
            /\ UNCHANGED content
       ELSE /\ content' = IF xcall.echo > 0 THEN <<EchoPiece(xcall.echo)>>
                          ELSE <<>>
            /\ xpc' = "run"
            /\ UNCHANGED <<cwd, ret>>
    /\ UNCHANGED <<xcall, xprog, xctx, proc, err, files, outi>>
    /\ UNCHANGED exceptExec

\* the caller's context is cancelled (ctx.Err() = context.Canceled)
XCanceled ==
    /\ xpc \in {"run", "wait", "ran"}
    /\ xctx = "live"
    /\ xctx' = "canceled"
    /\ UNCHANGED <<xcall, xprog, xpc, cwd, proc, err, content, files, outi, ret>>
    /\ UNCHANGED exceptExec

\* the timeout passes (ctx.Err() = context.DeadlineExceeded)
XDeadline ==
    /\ xpc \in {"run", "wait", "ran"}
    /\ xctx = "live"
    /\ xctx' = "deadline"
    /\ UNCHANGED <<xcall, xprog, xpc, cwd, proc, err, content, files, outi, ret>>
    /\ UNCHANGED exceptExec

\* ctx.Err() as an error message
CtxErr == IF xctx = "deadline" THEN "context deadline exceeded"
          ELSE "context canceled"

\* cmd.Run, the start: a context that is done already or a target that
\* cannot be started makes Run return the error at once
XStart ==
    /\ xpc = "run"
    /\ IF xctx # "live" \/ xprog.does = "spawnfail"
       THEN /\ err' = IF xctx # "live" THEN CtxErr ELSE "fork/exec failed"
            /\ xpc' = "ran"
            /\ UNCHANGED proc
       ELSE /\ proc' = "running"
            /\ xpc' = "wait"
            /\ UNCHANGED err
    /\ UNCHANGED <<xcall, xprog, cwd, xctx, content, files, outi, ret>>
    /\ UNCHANGED exceptExec

\* os/exec on ctx.Done(): cmd.Cancel, syscall.Kill(-pid, SIGINT)
XInterrupt ==
    /\ xpc = "wait"
    /\ proc = "running"
    /\ xctx # "live"
    /\ proc' = "signalled"
    /\ UNCHANGED <<xcall, xprog, xpc, cwd, xctx, err, content, files, outi, ret>>
    /\ UNCHANGED exceptExec

\* the child exits and cmd.Run returns: by itself with its status; after
\* the interrupt with "signal: interrupt", with a status of its own, or,
\* having exited with status 0, with ctx.Err()
XChildExit ==
    /\ xpc = "wait"
    /\ \/ /\ proc = "running"
          /\ xprog.does \in {"exit0", "exit1"}
          /\ err' = IF xprog.does = "exit0" THEN "nil" ELSE "exit status 1"
          /\ proc' = "exited"
       \/ /\ proc = "signalled"
          /\ err' \in {"signal: interrupt", "exit status 1", CtxErr}
          /\ proc' = "interrupted"
    /\ xpc' = "ran"
    /\ UNCHANGED <<xcall, xprog, cwd, xctx, content, files, outi, ret>>
    /\ UNCHANGED exceptExec

\* mutant of ErrString: always err.Error()
ErrStringOfErr == err

\* switch ctx.Err(): the cause of the deadline, or err.Error()
ErrString ==
    IF xctx = "deadline" THEN Cause(xcall) ELSE err

\* `if err = cmd.Run(); err != nil`: content += errString + " with "
XRan ==
    /\ xpc = "ran"
    /\ content' = IF err # "nil"
                  THEN content \o <<Lit(ErrString), Lit(" with ")>>
                  ELSE content
    /\ xpc' = "render"
    /\ outi' = 1
    /\ UNCHANGED <<xcall, xprog, cwd, xctx, proc, err, files, ret>>
    /\ UNCHANGED exceptExec

\* outputs: the non-empty ones of stdout and stderr, in that order
OutputsOf(p) ==
    SelectSeq(<<[Name |-> "stdout", Output |-> p.stdout],
                [Name |-> "stderr", Output |-> p.stderr]>>,
              LAMBDA out : out.Output # <<>>)

\* mutant of LogFile: the file carries the excerpt
LogFileOfEmbed(out, er) == [Name |-> out.Name \o ".log", Data |-> er.embed]

\* &discord.File{Name: out.Name + ".log", Reader: reader}, the reader being
\* bytes.NewReader(b) over the whole output
LogFile(out, er) == [Name |-> out.Name \o ".log", Data |-> out.Output]

\* header of output i: the first one is named when the command failed
HeaderOf(i, out) ==
    IF i = 1 /\ err # "nil" THEN Lit(out.Name \o ":" \o Header.s) ELSE Header

\* one round of `for i, out := range outputs`, or "no output"
XRender ==
    /\ xpc = "render"
    /\ LET outputs == OutputsOf(xprog)
       IN IF outputs = <<>>
          THEN /\ content' = Append(content, Lit("no output"))
               /\ xpc' = "readdir"
               /\ UNCHANGED <<files, outi>>
          ELSE LET out == outputs[outi]
                   header == HeaderOf(outi, out)
                   limit == contentMax - RuneCount(content) - header.n - Footer.n
                   er == bytesToEmbedAndReader(out.Output,
                             xcall.NumberOfLinesToEmbedOutput, limit,
                             xcall.NumberOfLinesToEmbedUploadedOutput)
               IN /\ content' = content \o
                        <<header, [s |-> Str(er.embed), n |-> Len(er.embed)],
                          Footer>>
                  /\ files' = IF er.reader
                              THEN Append(files, LogFile(out, er))
                              ELSE files
                  /\ outi' = outi + 1
                  /\ xpc' = IF outi < Len(outputs) THEN "render" ELSE "readdir"
    /\ UNCHANGED <<xcall, xprog, cwd, xctx, proc, err, ret>>
    /\ UNCHANGED exceptExec

\* entries, err := os.ReadDir(cwd) and the files read: return the result
XReadDir ==
    /\ xpc = "readdir"
    /\ XReturn("result")
    /\ UNCHANGED <<xcall, xprog, xctx, proc, err, content, files, outi>>
    /\ UNCHANGED exceptExec

\* os.ReadDir or os.ReadFile fails: return nil, err
XReadDirFails ==
    /\ xpc = "readdir"
    /\ XReturn("error")
    /\ UNCHANGED <<xcall, xprog, xctx, proc, err, content, files, outi>>
    /\ UNCHANGED exceptExec

\* the steps of the goroutine running executeTarget and of os/exec
ExecSteps ==
    \/ XMkdirTemp
    \/ XSplit
    \/ XStart
    \/ XInterrupt
    \/ XRan
    \/ XRender
    \/ XReadDir

\* what the environment does: the contexts, the child, the file system
ExecEnv ==
    \/ XCanceled
    \/ XDeadline
    \/ XChildExit
    \/ XMkdirTempFails
    \/ XReadDirFails

ExecNext == ExecSteps \/ ExecEnv

\* ---- pkg/future: Await over a sequence of futures ----

NFutSet == 0..NFut

\* future i of the input: it yields the value i, fails, or panics
AwaitBodies(i) ==
    {[Value |-> i, Err |-> "nil", panic |-> "nil"],
     [Value |-> 0, Err |-> "errTest", panic |-> "nil"],
     [Value |-> 0, Err |-> "nil", panic |-> "panic!"]}

ZeroInt == [Value |-> 0, Err |-> "nil"]

\* what Await yields for a receiver whose result was not available when the
\* context was done: the zero value and ctx.Err()
CanceledResult == [ZeroInt EXCEPT !.Err = Canceled]

NoRunner == [pc |-> "none", result |-> ZeroInt]

AwaitIdle ==
    /\ futures = <<>>
    /\ submit = [k |-> 0, pc |-> "idle"]
    /\ receiverCh = <<>>
    /\ runner = [i \in 1..NFut |-> NoRunner]
    /\ collect = [pc |-> "idle", cur |-> 0]
    /\ yielded = <<>>
    /\ awaitCtx = FALSE

\* Await(ctx, futures) was called: the submitting goroutine was started and
\* the caller ranges over receiverCh
AwaitInit ==
    /\ \E n \in NFutSet :
          futures \in {fs \in [1..n -> UNION {AwaitBodies(i) : i \in 1..NFut}] :
                          \A i \in 1..n : fs[i] \in AwaitBodies(i)}
    /\ submit = [k |-> 1, pc |-> IF futures = <<>> THEN "close" ELSE "send"]
    /\ receiverCh = <<>>
    /\ runner = [i \in 1..NFut |-> NoRunner]
    /\ collect = [pc |-> "range", cur |-> 0]
    /\ yielded = <<>>
    /\ awaitCtx = FALSE

\* the context passed to Await is cancelled or times out
AwaitCtxDone ==
    /\ collect.pc \in {"range", "select"}
    /\ ~awaitCtx
    /\ awaitCtx' = TRUE
    /\ UNCHANGED <<futures, submit, receiverCh, runner, collect, yielded>>
    /\ UNCHANGED exceptAwait

\* runner, receiver := makeRunnerAndReceiver(f); receiverCh <- receiver
\* (the send blocks while the buffer of runtime.NumCPU() receivers is full)
SubmitSend ==
    /\ submit.pc = "send"
    /\ Len(receiverCh) < NumCPU
    /\ receiverCh' = Append(receiverCh, submit.k)
    /\ submit' = [submit EXCEPT !.pc = "go"]
    /\ UNCHANGED <<futures, runner, collect, yielded, awaitCtx>>
    /\ UNCHANGED exceptAwait

\* go runner(ctx), and the next future of the input
SubmitGo ==
    /\ submit.pc = "go"
    /\ runner' = [runner EXCEPT ![submit.k].pc = "spawned"]
    /\ submit' = [k |-> submit.k + 1,
                  pc |-> IF submit.k < Len(futures) THEN "send" ELSE "close"]
    /\ UNCHANGED <<futures, receiverCh, collect, yielded, awaitCtx>>
    /\ UNCHANGED exceptAwait

\* the deferred close(receiverCh)
SubmitClose ==
    /\ submit.pc = "close"
    /\ submit' = [submit EXCEPT !.pc = "closed"]
    /\ UNCHANGED <<futures, receiverCh, runner, collect, yielded, awaitCtx>>
    /\ UNCHANGED exceptAwait

\* runner i: result.Value, result.Err = f(ctx), recovered; an input future
\* that honours its context may return ctx.Err() once the context is done.
\* The runner then blocks in `ch <- result`.
AwaitRunTask(i) ==
    /\ runner[i].pc = "spawned"
    /\ \E r \in {RunBody(futures[i], ZeroInt)}
                \cup (IF awaitCtx THEN {CanceledResult} ELSE {}) :
          runner' = [runner EXCEPT ![i] = [pc |-> "sending", result |-> r]]
    /\ UNCHANGED <<futures, submit, receiverCh, collect, yielded, awaitCtx>>
    /\ UNCHANGED exceptAwait

\* runner i: the send was received; the deferred close(ch)
AwaitRunnerClose(i) ==
    /\ runner[i].pc = "sent"
    /\ runner' = [runner EXCEPT ![i].pc = "done"]
    /\ UNCHANGED <<futures, submit, receiverCh, collect, yielded, awaitCtx>>
    /\ UNCHANGED exceptAwait

\* `for receiver := range receiverCh`: the next receiver, or the end of the
\* loop on the closed and drained channel
CollectNext ==
    /\ collect.pc = "range"
    /\ IF receiverCh # <<>>
       THEN /\ collect' = [pc |-> "select", cur |-> Head(receiverCh)]
            /\ receiverCh' = Tail(receiverCh)
       ELSE /\ submit.pc = "closed"
            /\ collect' = [pc |-> "done", cur |-> 0]
            /\ UNCHANGED receiverCh
    /\ UNCHANGED <<futures, submit, runner, yielded, awaitCtx>>
    /\ UNCHANGED exceptAwait

\* the result received from runner i is yielded
Yield(i) ==
    /\ runner[i].pc = "sending"
    /\ runner' = [runner EXCEPT ![i].pc = "sent"]
    /\ yielded' = Append(yielded, runner[i].result)
    /\ collect' = [pc |-> "range", cur |-> 0]

\* mutant of CollectReceive: the result of whichever runner completed
CollectReceiveAny ==
    /\ collect.pc = "select"
    /\ \E i \in 1..NFut : Yield(i)
    /\ UNCHANGED <<futures, submit, receiverCh, awaitCtx>>
    /\ UNCHANGED exceptAwait

\* result.Value, result.Err = receiver(ctx): Result.receive, the channel
\* case of the outer select
CollectReceive ==
    /\ collect.pc = "select"
    /\ Yield(collect.cur)
    /\ UNCHANGED <<futures, submit, receiverCh, awaitCtx>>
    /\ UNCHANGED exceptAwait

\* mutant of CollectCtxDone: receive does not select on ctx.Done()
CollectCtxIgnored ==
    /\ collect.pc = "select"
    /\ FALSE
    /\ UNCHANGED vars

\* Result.receive, outer select: `case <-ctx.Done()`
CollectCtxDone ==
    /\ collect.pc = "select"
    /\ awaitCtx
    /\ collect' = [collect EXCEPT !.pc = "ctxdone"]
    /\ UNCHANGED <<futures, submit, receiverCh, runner, yielded, awaitCtx>>
    /\ UNCHANGED exceptAwait

\* Result.receive, inner select: the result if it is available, otherwise
\* (default) r.Err = ctx.Err()
CollectOrDefault ==
    /\ collect.pc = "ctxdone"
    /\ IF runner[collect.cur].pc = "sending"
       THEN Yield(collect.cur)
       ELSE /\ yielded' = Append(yielded, CanceledResult)
            /\ collect' = [pc |-> "range", cur |-> 0]
            /\ UNCHANGED runner
    /\ UNCHANGED <<futures, submit, receiverCh, awaitCtx>>
    /\ UNCHANGED exceptAwait

\* the steps of the goroutines of Await itself
AwaitSteps ==
    \/ SubmitSend
    \/ SubmitGo
    \/ SubmitClose
    \/ CollectNext
    \/ CollectReceive
    \/ CollectCtxDone
    \/ CollectOrDefault
    \/ \E i \in 1..NFut : AwaitRunnerClose(i)

\* an input future completes
Completes == \E i \in 1..NFut : AwaitRunTask(i)

AwaitNext == AwaitSteps \/ Completes \/ AwaitCtxDone

InitAwait == CoalescerInit /\ FutureIdle /\ AwaitInit /\ ExecIdle /\ WordsIdle /\ InputIdle

SpecAwait == InitAwait /\ [][AwaitNext]_vars

\* the goroutines of Await are scheduled; an input future need not complete
SpecAwaitCancel == InitAwait /\ [][AwaitNext]_vars /\ WF_vars(AwaitSteps)

\* one future awaited by several goroutines, or one call of Await
InitFutures ==
    /\ CoalescerInit
    /\ ExecIdle
    /\ WordsIdle /\ InputIdle
    /\ (FutureInit /\ AwaitIdle) \/ (FutureIdle /\ AwaitInit)

SpecFutures == InitFutures /\ [][FutureNext \/ AwaitNext]_vars

InitExec == CoalescerInit /\ FutureIdle /\ AwaitIdle /\ ExecInit /\ WordsIdle /\ InputIdle

\* the goroutine of executeTarget is scheduled and os/exec delivers the
\* interrupt; the child is not obliged to exit
SpecExec == InitExec /\ [][ExecNext]_vars /\ WF_vars(ExecSteps)

\* as SpecExec, the temporary directory being made and read without error
SpecExecOK ==
    /\ InitExec
    /\ [][ExecSteps \/ XCanceled \/ XDeadline \/ XChildExit]_vars
    /\ WF_vars(ExecSteps)

InitWords == CoalescerInit /\ FutureIdle /\ AwaitIdle /\ ExecIdle /\ WordsInit /\ InputIdle

\* one call of shellwords.Split, on any string or on the result of Join
SpecWords == InitWords /\ [][WordsNext]_vars

InitInput ==
    CoalescerInit /\ FutureIdle /\ AwaitIdle /\ ExecIdle /\ WordsIdle /\ InputInit

\* the input detection of ExecuteCmds on any message and either option value
SpecInput == InitInput /\ [][InputNext]_vars

InitFuture == CoalescerInit /\ FutureInit /\ AwaitIdle /\ ExecIdle /\ WordsIdle /\ InputIdle

SpecFuture == InitFuture /\ [][FutureNext]_vars

\* goroutines that can take a step are eventually scheduled; nobody is
\* obliged to await the future or to cancel a context
SpecFutureLive == InitFuture /\ [][FutureNext]_vars /\ WF_vars(FutureSteps)

\* ---- specifications of the coalescer ----

Init == CoalescerInit /\ FutureIdle /\ AwaitIdle /\ ExecIdle /\ WordsIdle /\ InputIdle

Publish ==
    \E p \in Pubs :
        \/ \E e \in PubEvents : onMessageEvent(p, e)
        \/ LoadOrStore(p)
        \/ CompareAndSwap(p)
        \/ CloseOld(p)

Work ==
    \E w \in Pubs :
        \/ WLoad(w)
        \/ WReceive(w)
        \/ WAwaitCmd(w)
        \/ WAwaitReplies(w)
        \/ WCompareAndDelete(w)
        \/ WZip(w)
        \/ WDeleteSet(w)

Cancel ==
    \E c \in Pubs :
        \/ WatcherFires(c)
        \/ \E k \in 1..MaxCmds : ChildInterrupt(c, k)

Children ==
    \E c \in Pubs, k \in 1..MaxCmds : ChildStart(c, k) \/ ChildExit(c, k)

RestFailure ==
    \E w \in Pubs : WReplyQueryFails(w) \/ WRestCallFails(w)

\* every REST call succeeds
NextOK == Publish \/ Work \/ Cancel \/ Children

Next == NextOK \/ RestFailure

Spec == Init /\ [][Next]_vars

\* the events are about any of the source messages
InitIds ==
    /\ CoalescerStart
    /\ pid \in [Pubs -> Ids]
    /\ FutureIdle /\ AwaitIdle /\ ExecIdle /\ WordsIdle /\ InputIdle

SpecIds == InitIds /\ [][Next]_vars

\* ---- the processing of one event on its own ----

\* The state after the handler of one event stored its mailbox and spawned
\* the worker, no other event being delivered: the event is any event, and
\* the message has up to MaxPrior bot replies of either kind left by the
\* events processed before.
Handled(e, a, t) ==
    /\ FutureIdle
    /\ AwaitIdle
    /\ ExecIdle
    /\ WordsIdle /\ InputIdle
    /\ ppc = [p \in Pubs |-> IF p = 1 THEN "done" ELSE "idle"]
    /\ pold = [p \in Pubs |-> NoCh]
    /\ pev = [p \in Pubs |-> IF p = 1 THEN e ELSE NoEvent]
    /\ pid = [p \in Pubs |-> 1]
    /\ syncMap = [i \in Ids |-> IF i = 1 THEN 1 ELSE NoCh]
    /\ chBuf = [c \in Pubs |-> c = 1]
    /\ chClosed = [c \in Pubs |-> FALSE]
    /\ panicked = FALSE
    /\ order = <<1>>
    /\ wpc = [w \in Pubs |-> IF w = 1 THEN "load" ELSE "none"]
    /\ wch = [w \in Pubs |-> NoCh]
    /\ wk = [w \in Pubs |-> 0]
    /\ wexit = [w \in Pubs |-> "none"]
    /\ ctx = [c \in Pubs |-> "none"]
    /\ child = [c \in Pubs |-> [k \in 1..MaxCmds |-> "new"]]
    /\ cmdResults = [c \in Pubs |-> <<>>]
    /\ replies = [c \in Pubs |-> <<>>]
    /\ repliesToBeDeleted = [c \in Pubs |-> <<>>]
    /\ rlog = [c \in Pubs |-> <<>>]
    /\ anchored = 1..a
    /\ threaded = (a + 1)..(a + t)
    /\ nextId = a + t + 1
    /\ msgs = [r \in 1..(a + t) |->
                  [source |-> 1,
                   channel |-> IF r <= a THEN "source" ELSE "thread",
                   reference |-> r <= a]]

InitReconcile ==
    \E e \in Events, a \in 0..MaxPrior, t \in 0..MaxPrior : Handled(e, a, t)

\* The same for the first event of a message of any channel: the message
\* has no bot reply yet.
InitCommands == \E e \in Messages : Handled(e, 0, 0)

NextReconcile == Work \/ Children \/ RestFailure

SpecReconcile == InitReconcile /\ [][NextReconcile]_vars

SpecCommands == InitCommands /\ [][NextReconcile]_vars

\* the processing of one event with no REST failure other than those the
\* calls of the code bring about themselves
NextReconcileOK == Work \/ Children

SpecReconcileOK == InitReconcile /\ [][NextReconcileOK]_vars

\* Goroutines that can take a step are eventually scheduled, and a child
\* process that was spawned eventually exits.  The gateway is not obliged to
\* deliver a further event, and no REST call fails.
Scheduled ==
    \/ \E p \in Pubs : LoadOrStore(p) \/ CompareAndSwap(p) \/ CloseOld(p)
    \/ Work
    \/ Cancel
    \/ \E c \in Pubs, k \in 1..MaxCmds : ChildStart(c, k)

Terminates == \E c \in Pubs, k \in 1..MaxCmds : ChildExit(c, k)

SpecLive == Init /\ [][NextOK]_vars /\ WF_vars(Scheduled) /\ WF_vars(Terminates)

\* As SpecLive, but a child process need not ever exit.
SpecCancel == Init /\ [][NextOK]_vars /\ WF_vars(Scheduled)

\* ---- vocabulary of the claims ----

Installed(c) == \E i \in 1..Len(order) : order[i] = c
Latest == IF order = <<>> THEN NoCh ELSE Last(order)
Superseded(c) == Installed(c) /\ Latest # c
Reconciled(c) == \E w \in Pubs : wch[w] = c /\ wpc[w] = "done" /\ wexit[w] = "reconciled"
RestFailed == \E c \in Pubs : \E i \in 1..Len(rlog[c]) : ~rlog[c][i].ok
Publishing(p) == ppc[p] \in {"los", "cas", "close"}
Running(w) == wpc[w] \notin {"none", "done"}

Replaced(c) == \E p \in Pubs : pold[p] = c /\ ppc[p] \in {"close", "done"}
Quiescent == (\A w \in Pubs : ~Running(w)) /\ (\A p \in Pubs : ~Publishing(p))

\* worker w has a reconciliation REST call still to issue
CallsRemain(w) ==
    LET c == wch[w] IN
    \/ /\ wpc[w] = "zip"
       /\ \/ \E k \in wk[w]..Len(Zipped(c)) : ZipCall(Zipped(c)[k]).op # "noop"
          \/ repliesToBeDeleted[c] # <<>>
    \/ /\ wpc[w] = "delset"
       /\ wk[w] <= Len(repliesToBeDeleted[c])

\* worker w is processing: it has loaded a mailbox and has not yet issued its
\* last reconciliation REST call
Processing(w) ==
    \/ wpc[w] \in {"recv", "awaitCmds", "awaitReplies", "awaitDel", "cad"}
    \/ CallsRemain(w)

\* ---- claims ----

\* C1: an event superseded by a later publish for the same id issues no reply
\* create, edit or delete after that publish: every reconciliation REST call
\* is issued for the event published last.
C1_OnlyLatestActs ==
    [][\A c \in Pubs : Len(rlog'[c]) > Len(rlog[c]) => Latest = c]_vars

\* C2: at every moment at most one worker is processing events of the id.
C2_OneWorkerProcessing ==
    Cardinality({w \in Pubs : Processing(w)}) <= 1

\* C3: when no worker is running and no publish is in progress, the map has
\* no entry for the id.
C3_NoEntryWhenIdle ==
    Quiescent => \A i \in Ids : syncMap[i] = NoCh

\* C4: with every REST call succeeding and every child terminating, every
\* publish is eventually reconciled or superseded by a later publish, and no
\* event stays in an installed mailbox that no worker will read.
C4_LastEventReconciled ==
    <>[](/\ \A p \in Pubs : ppc[p] # "idle" =>
                (Reconciled(p) \/ Superseded(p) \/ RestFailed)
         /\ \A i \in Ids :
               (syncMap[i] # NoCh /\ chBuf[syncMap[i]]) => \E w \in Pubs : Running(w))

C4_Witness ==
    /\ Quiescent
    /\ \E c \in Pubs : Superseded(c) /\ ~Reconciled(c) /\ ctx[c] = "fired"
    /\ Latest # NoCh /\ Reconciled(Latest)
    /\ ~RestFailed

\* C5: when a mailbox is replaced while a worker executes its event, the
\* event's cancel token eventually fires, and every child of the event that
\* is running is eventually sent the interrupt (unless it exits before):
\* eventually no replaced mailbox has an unfired token or a running child
\* that was not interrupted.
C5_CancelReachesChildren ==
    <>[](\A c \in Pubs : Replaced(c) =>
            /\ ctx[c] # "live"
            /\ \A k \in 1..MaxCmds : child[c][k] # "running")

C5_Witness ==
    \E c \in Pubs, k \in 1..MaxCmds :
        Replaced(c) /\ ctx[c] = "fired" /\ child[c][k] = "signalled"

\* C6: child processes of at most one event of the id are alive at any time.
C6_ChildrenOfOneEvent ==
    \A c1, c2 \in Pubs :
        (\E k \in 1..MaxCmds : Alive(c1, k)) /\ (\E k \in 1..MaxCmds : Alive(c2, k))
            => c1 = c2

\* C7: a reconciliation of m successful results against n prior replies
\* (ascending by id) in which no REST call fails issues, in increasing k, an
\* edit of reply k with result k for k <= min(m,n), then a create with result
\* k for n < k <= m, or a delete of reply k for m < k <= n.
ExpectedCall(c, k) ==
    LET m == Len(cmdResults[c])
        n == Len(replies[c])
    IN IF k <= Min(m, n)
       THEN [stage |-> "zip", op |-> "edit", reply |-> replies[c][k], result |-> k, ok |-> TRUE]
       ELSE IF k <= m
       THEN [stage |-> "zip", op |-> "create", reply |-> 0, result |-> k, ok |-> TRUE]
       ELSE [stage |-> "zip", op |-> "delete", reply |-> replies[c][k], result |-> 0, ok |-> TRUE]

ZipLog(c) == SelectSeq(rlog[c], LAMBDA x : x.stage = "zip")
CountOp(c, op) == Len(SelectSeq(ZipLog(c), LAMBDA x : x.op = op))
AllSuccessful(c) == \A i \in 1..Len(cmdResults[c]) : cmdResults[c][i].Value # "nil"

C7_ReconcilerPairing ==
    \A w \in Pubs :
        LET c == wch[w]
            m == Len(cmdResults[c])
            n == Len(replies[c])
        IN (wexit[w] = "reconciled" /\ AllSuccessful(c)) =>
              /\ \A i, j \in 1..n : i < j => replies[c][i] < replies[c][j]
              /\ ZipLog(c) = [k \in 1..Max(m, n) |-> ExpectedCall(c, k)]
              /\ CountOp(c, "edit") = Min(m, n)
              /\ CountOp(c, "create") = Max(0, m - n)
              /\ CountOp(c, "delete") = Max(0, n - m)

C7_Witness ==
    \E w \in Pubs :
        /\ wexit[w] = "reconciled"
        /\ AllSuccessful(wch[w])
        /\ Len(cmdResults[wch[w]]) = 2
        /\ Len(replies[wch[w]]) = 1
        /\ Len(ZipLog(wch[w])) = 2

\* C8: after a Delete event was processed as the latest event, every bot
\* reply to the message is deleted, anchored or in its thread, and the id has
\* no slot in the map.
C8_DeleteRemovesAllReplies ==
    \A w \in Pubs :
        (wexit[w] = "reconciled" /\ pev[wch[w]].type = "Delete") =>
            (anchored = {} /\ threaded = {} /\ syncMap[pid[w]] = NoCh)

\* C9: the task body of a future made by New or NewDeferred is executed
\* exactly once however many awaits are issued: never twice, and once as soon
\* as the future was made by New or was awaited.
C9_TaskRunsOnce ==
    /\ [](taskRuns <= 1)
    /\ <>[]((fkind = "New" \/ \E a \in Awaiters : apc[a] # "idle") => taskRuns = 1)

C9_Witness ==
    /\ taskRuns = 1
    /\ fkind = "NewDeferred"
    /\ \A a \in Awaiters : apc[a] = "ret"

\* C10: every await of the same future returns the same outcome.
C10_SameOutcome ==
    \A a, b \in Awaiters : (apc[a] = "ret" /\ apc[b] = "ret") => aout[a] = aout[b]

C10_Witness ==
    \E a, b \in Awaiters :
        /\ a # b
        /\ apc[a] = "ret" /\ apc[b] = "ret"
        /\ actx[b] /\ ~actx[a]
        /\ aout[b].Value = "v"

\* ---- claims about future.Await and panicking task bodies ----

\* the task body of the single future panics
Panics(b) == b.panic # "nil"

\* C11 (as stated): if the task body panics, every awaiter receives an error
\* whose message is the panic value, and Await yields one result carrying
\* that error for the panicking future.
C11_PanicReachesEveryAwaiter ==
    /\ \A a \in Awaiters :
          (Panics(task) /\ apc[a] = "ret") => aout[a].Err = task.panic
    /\ collect.pc = "done" =>
          \A i \in 1..Len(futures) :
              Panics(futures[i]) =>
                  /\ i <= Len(yielded)
                  /\ yielded[i].Err = futures[i].panic

\* C11 (amended): the panic is captured by the runner; an awaiter receives
\* the zero value and the panic value as the error, or, only if a context
\* passed to the future was done, the context's error; Await yields exactly
\* one result for the panicking future, the panic error or, only if Await's
\* context was done, the context's error.
C11_PanicCaptured ==
    /\ \A a \in Awaiters :
          (Panics(task) /\ apc[a] = "ret") =>
              \/ aout[a] = [Value |-> "zero", Err |-> task.panic]
              \/ /\ aout[a] = [Value |-> "zero", Err |-> Canceled]
                 /\ \E b \in Awaiters : actx[b]
    /\ collect.pc = "done" =>
          /\ Len(yielded) = Len(futures)
          /\ \A i \in 1..Len(futures) :
                 Panics(futures[i]) =>
                     \/ yielded[i] = [Value |-> 0, Err |-> futures[i].panic]
                     \/ yielded[i] = CanceledResult /\ awaitCtx

\* every awaiter of a future whose body panicked got the panic value
C11_Witness ==
    /\ Panics(task)
    /\ taskRuns = 1
    /\ \A a \in Awaiters : apc[a] = "ret" /\ aout[a].Err = task.panic

C13_AwaitDrainsOnCancel ==
    /\ [](\A k \in 1..Len(yielded) :
             \/ yielded[k] = RunBody(futures[k], ZeroInt)
             \/ yielded[k] = CanceledResult /\ awaitCtx)
    /\ <>[](awaitCtx => (collect.pc = "done" /\ Len(yielded) = Len(futures)))

\* Await returned although its last future never finished
C13_Witness ==
    /\ awaitCtx
    /\ collect.pc = "done"
    /\ Len(futures) = NFut
    /\ Len(yielded) = NFut
    /\ yielded[NFut] = CanceledResult
    /\ runner[NFut].pc = "spawned"

\* ---- claims about executeTarget ----

\* C14: the content of the ExecutionResult executeTarget returns has at most
\* 2000 runes, for every echoed command line, diagnostic prefix, output and
\* line limit.
C14_ContentWithinLimit ==
    (xpc = "returned" /\ ret = "result") => RuneCount(content) <= contentMax

EchoOf(c) == IF c.echo > 0 THEN <<EchoPiece(c.echo)>> ELSE <<>>

\* the child was interrupted after the deadline had passed
TimedOut == xctx = "deadline" /\ proc = "interrupted"

C17_ParseErrorReplied ==
    \A w \in Pubs :
        LET c == wch[w] IN
        (wexit[w] = "reconciled" /\ pev[c].type # "Delete") =>
            \A k \in pev[c].bad :
                \E i \in 1..Len(ZipLog(c)) :
                    /\ ZipLog(c)[i].op \in {"create", "edit"}
                    /\ ZipLog(c)[i].result = k
                    /\ ZipLog(c)[i].ok

\* the command lines of a message without their repetitions: the lines at
\* the positions where a text occurs for the first time, in message order
FirstOccurrences(xs) == {i \in 1..Len(xs) : \A j \in 1..(i - 1) : xs[j] # xs[i]}
Distinct(xs) ==
    [k \in 1..Cardinality(FirstOccurrences(xs)) |->
        xs[CHOOSE i \in FirstOccurrences(xs) :
               Cardinality({j \in FirstOccurrences(xs) : j < i}) = k - 1]]

\* the commands of event c for which the target was executed
Executed(c) == {k \in 1..MaxCmds : child[c][k] = "exited"}
Creates(c) == SelectSeq(ZipLog(c), LAMBDA x : x.op = "create")

C19_SplitJoinRoundTrip ==
    (swpc \in {"returned", "error"} /\ input = Join(inputs)) =>
        /\ swpc = "returned"
        /\ words = inputs

\* a list holding a string of a newline and a quote, and a string of a
\* backslash, was joined and split again
C19_Witness ==
    /\ swpc = "returned"
    /\ inputs = << <<"\n", "'">>, <<"\\">> >>
    /\ input = Join(inputs)
    /\ words = inputs

\* a quote of str is left open at the end of str, read as the Bourne shell
\* reads it: outside quotes a backslash escapes the next character, a single
\* quote runs to the next single quote, a double quote runs to the next
\* double quote that no backslash escapes
RECURSIVE QuoteOpenFrom(_, _, _)
QuoteOpenFrom(str, p, quote) ==
    IF p > Len(str) THEN quote # "none"
    ELSE IF quote = "none"
    THEN IF str[p] = "\\" THEN QuoteOpenFrom(str, p + 2, "none")
         ELSE IF str[p] \in {"'", "\""} THEN QuoteOpenFrom(str, p + 1, str[p])
         ELSE QuoteOpenFrom(str, p + 1, "none")
    ELSE IF quote = "'"
    THEN QuoteOpenFrom(str, p + 1, IF str[p] = "'" THEN "none" ELSE quote)
    ELSE IF str[p] = "\\" THEN QuoteOpenFrom(str, p + 2, quote)
    ELSE QuoteOpenFrom(str, p + 1, IF str[p] = "\"" THEN "none" ELSE quote)

UnmatchedQuote(str) == QuoteOpenFrom(str, 1, "none")

\* C20: Split(s) returns the unmatched-quote error exactly when s has a
\* quote that is neither escaped nor closed, and the words otherwise.
C20_ErrorIffUnmatchedQuote ==
    /\ swpc = "error" => UnmatchedQuote(input)
    /\ swpc = "returned" => ~UnmatchedQuote(input)

\* the results of event c that stand for a command of the message (the one
\* result of a failed channel lookup stands for none)
CommandResults(c) == SelectSeq(cmdResults[c], LAMBDA r : r.Err # "channel")

C22_LaterEventProcessed ==
    \A w \in Pubs :
        wexit[w] = "queryfail" =>
            /\ ~panicked
            /\ (Quiescent /\ Latest # wch[w]) => ~chBuf[Latest]

\* the place of mailbox c in the order of installation
Pos(c) == CHOOSE i \in 1..Len(order) : order[i] = c

\* C23: a worker issues reconciliation REST calls for an event only after
\* its compare-and-delete of the mailbox it loaded succeeded, which it does
\* exactly when no publish replaced that mailbox; when it fails the worker
\* issues no call for that event, then and later, and loads a newer mailbox.
C23_ReconcileOnlyAfterCompareAndDelete ==
    /\ [](\A w \in Pubs :
             wpc[w] = "cad" => (syncMap[pid[w]] = wch[w] <=> ~Replaced(wch[w])))
    /\ [](\A c \in Pubs :
             rlog[c] # <<>> =>
                /\ ~Replaced(c)
                /\ \E w \in Pubs : wch[w] = c /\ wpc[w] \in {"zip", "delset", "done"})
    /\ [][\A w \in Pubs :
             /\ (wpc[w] # "zip" /\ wpc'[w] = "zip") =>
                   (wpc[w] = "cad" /\ syncMap[pid[w]] = wch[w] /\ syncMap'[pid[w]] = NoCh)
             /\ (wch[w] # NoCh /\ rlog'[wch[w]] # rlog[wch[w]]) =>
                   wpc[w] \in {"zip", "delset"}
             /\ (wpc[w] = "cad" /\ wpc'[w] # "cad" /\ syncMap[pid[w]] # wch[w]) =>
                   (wpc'[w] = "load" /\ rlog' = rlog)
             /\ (wpc[w] = "load" /\ wpc'[w] = "recv" /\ wch[w] # NoCh) =>
                   (wch'[w] = syncMap[pid[w]] /\ wch'[w] # NoCh /\ Pos(wch'[w]) > Pos(wch[w]))]_vars

\* a worker awaited the commands of event 1, found its mailbox replaced,
\* loaded mailbox 2 and issued calls for event 2 only
C23_Witness ==
    /\ wch[1] = 2
    /\ cmdResults[1] # <<>>
    /\ rlog[1] = <<>>
    /\ rlog[2] # <<>>

\* C24: under any interleaving of the publishes for one id, a publish spawns
\* a worker if and only if the map held no mailbox when its own mailbox was
\* installed; otherwise it spawns none and closes exactly the mailbox that
\* its compare-and-swap replaced.
C24_SpawnIffNewlyStored ==
    /\ [][\A p \in Pubs :
             /\ (syncMap[pid[p]] # p /\ syncMap'[pid[p]] = p) =>
                   IF syncMap[pid[p]] = NoCh
                   THEN wpc[p] = "none" /\ wpc'[p] = "load" /\ chClosed' = chClosed
                        /\ ppc'[p] = "done"
                   ELSE wpc'[p] = "none" /\ ppc'[p] = "close" /\ pold'[p] = syncMap[pid[p]]
             /\ (wpc[p] = "none" /\ wpc'[p] # "none") =>
                   (syncMap[pid[p]] = NoCh /\ syncMap'[pid[p]] = p)
             /\ \A c \in Pubs :
                   (~chClosed[c] /\ chClosed'[c]) =>
                      \E q \in Pubs :
                         /\ ppc[q] = "close" /\ ppc'[q] = "done" /\ pold[q] = c
                         /\ Pos(q) = Pos(c) + 1
                         /\ \A b \in Pubs \ {c} : chClosed'[b] = chClosed[b]]_vars
    /\ [](\A p \in Pubs :
             ppc[p] = "done" =>
                IF pold[p] = NoCh
                THEN wpc[p] # "none"
                ELSE wpc[p] = "none" /\ chClosed[pold[p]])
    /\ [](~panicked)

\* both publishes are done: the first spawned the worker, the second closed
\* the mailbox of the first
C24_Witness ==
    /\ \A p \in Pubs : ppc[p] = "done"
    /\ \E p, q \in Pubs :
          /\ pold[p] = NoCh /\ wpc[p] # "none"
          /\ pold[q] = p /\ wpc[q] = "none" /\ chClosed[p]

\* C25: if the gateway delivers event A before event B for the same id
\* (publisher indices are the delivery order), A's mailbox is installed in
\* the map before B's, so the mailbox installed last is the one of the event
\* delivered last.
C25_InstalledInDeliveryOrder ==
    \A i, j \in 1..Len(order) : i < j => order[i] < order[j]

\* C26: publishing or processing an event for source message A never
\* replaces or removes the map entry of a different message B, never closes
\* a mailbox of B and never cancels work running for B: the entry of B is a
\* mailbox of B, a mailbox is closed only by a publish for its own message,
\* a token fires only when its own mailbox was closed, a child is
\* interrupted only under its own fired token, and a step of the handler
\* or the worker of an event leaves all of that alone for every other message.
C26_OtherIdsUntouched ==
    /\ [](\A i \in Ids : syncMap[i] # NoCh => pid[syncMap[i]] = i)
    /\ [](\A c \in Pubs :
             chClosed[c] =>
                \E p \in Pubs : pid[p] = pid[c] /\ pold[p] = c /\ ppc[p] = "done")
    /\ [](\A c \in Pubs : ctx[c] = "fired" => chClosed[c])
    /\ [](\A c \in Pubs, k \in 1..MaxCmds :
             child[c][k] = "signalled" => ctx[c] = "fired")
    /\ [][\A a \in Pubs :
             (ppc'[a] # ppc[a] \/ wpc'[a] # wpc[a] \/ wk'[a] # wk[a]) =>
                \A b \in Ids \ {pid[a]} :
                   /\ syncMap'[b] = syncMap[b]
                   /\ \A c \in Pubs :
                         pid[c] = b =>
                            /\ chClosed'[c] = chClosed[c]
                            /\ chBuf'[c] = chBuf[c]
                            /\ ctx'[c] = ctx[c]
                            /\ child'[c] = child[c]
                            /\ rlog'[c] = rlog[c]]_vars

\* the event of one message was reconciled while the mailbox of another
\* message stays installed, its token live and its child running
C26_Witness ==
    \E a, b \in Pubs :
        /\ pid[a] # pid[b]
        /\ Reconciled(a)
        /\ syncMap[pid[a]] = NoCh
        /\ syncMap[pid[b]] = b
        /\ ctx[b] = "live"
        /\ \E k \in 1..MaxCmds : child[b][k] = "running"

\* C28: for an Update of a source message that has a thread, the delete of
\* each surplus in-thread reply (a delete of the pairwise pass) is addressed
\* to the thread channel in which that reply lives, and so deletes it unless
\* the token fired.
C28_SurplusDeleteInThreadChannel ==
    \A w \in Pubs :
        LET c == wch[w] IN
        (c # NoCh /\ pev[c].type = "Update" /\ pev[c].thread) =>
            \A i \in 1..Len(ZipLog(c)) :
                ZipLog(c)[i].op = "delete" =>
                    /\ msgs[ZipLog(c)[i].reply].channel = "thread"
                    /\ DeleteMessage(pev[c]) = "thread"

\* C27: when reconciliation runs for an Update whose source message has a
\* thread, every reply of the delete-set (the prior replies outside the
\* thread) is deleted after the pairwise pass, for every number of results
\* and of in-thread replies: once the worker has left the reconciliation,
\* none of them remains.
C27_DeleteSetDeleted ==
    \A w \in Pubs :
        LET c == wch[w] IN
        (/\ wpc[w] = "done"
         /\ wexit[w] \in {"reconciled", "restfail"}
         /\ pev[c].type = "Update" /\ pev[c].thread) =>
            \A i \in 1..Len(repliesToBeDeleted[c]) :
                repliesToBeDeleted[c][i] \notin anchored

\* C29: each reply the reconciler creates is posted into the thread channel
\* of the source message without a message reference when the message has
\* the has-thread flag, and otherwise into the source channel with a
\* reference to the source message; never any other combination.
C29_CreatedReplyPlacement ==
    [][Len(msgs') # Len(msgs) =>
          \E w \in Pubs :
              LET c == wch[w]
                  m == Last(msgs')
              IN /\ wpc[w] = "zip"
                 /\ Len(msgs') = Len(msgs) + 1
                 /\ Last(rlog'[c]).op = "create"
                 /\ m.source = pid[c]
                 /\ IF pev[c].thread
                    THEN /\ m.channel = "thread" /\ ~m.reference
                         /\ nextId \in threaded' /\ nextId \notin anchored'
                    ELSE /\ m.channel = "source" /\ m.reference
                         /\ nextId \in anchored' /\ nextId \notin threaded']_vars

\* a reply was created for an Update of a message that has a thread, beside
\* a prior reply anchored in the source channel
C29_Witness ==
    /\ pev[1].type = "Update" /\ pev[1].thread
    /\ Creates(1) # <<>>
    /\ Creates(1)[1].ok
    /\ Last(msgs).channel = "thread"
    /\ \E r \in 1..Len(msgs) : msgs[r].channel = "source"

\* the result of the task is waiting to be delivered: a runner is blocked in
\* its send
ResultWaiting == \E r \in Runners : rpc[r] = "sending"

\* C30 (as stated): if an awaiter's cancel token has fired but the task has
\* already finished and its result is waiting to be delivered, await returns
\* the task's real result and not the cancellation error.
C30_ResultPreferredToCancellation ==
    [][\A a \in Awaiters :
          (actx[a] /\ ResultWaiting /\ apc[a] # "ret" /\ apc'[a] = "ret") =>
              aout'[a] = RunBody(task, Zero)]_vars

\* C30 (amended): the same for the await that runs Result.receive, the
\* first call of the future; a later call returns what that one captured.
C30_ReceivePrefersResult ==
    [][\A a \in Awaiters :
          (/\ actx[a] /\ ResultWaiting
           /\ apc[a] \in {"select", "ctxdone"} /\ apc'[a] = "ret") =>
              /\ aout'[a] = RunBody(task, Zero)
              /\ fresult' = RunBody(task, Zero)
              /\ ~ResultWaiting']_vars

\* the only awaiter's token fired and its await returned the task's result
C30_Witness ==
    \E a \in Awaiters :
        /\ \A b \in Awaiters \ {a} : apc[b] = "idle"
        /\ actx[a]
        /\ apc[a] = "ret"
        /\ aout[a] = RunBody(task, Zero)
        /\ \E r \in Runners : rpc[r] \in {"sent", "done"}

Committed(w) ==
    \/ wpc[w] \in {"zip", "delset"}
    \/ wpc[w] = "done" /\ wexit[w] \in {"reconciled", "restfail"}

\* C35: once a worker's compare-and-delete of its mailbox has succeeded, that
\* mailbox is never closed, so the token under which the worker reconciles
\* never fires, whatever events are published later for the same id.
C35_CommittedNeverCancelled ==
    \A w \in Pubs :
        Committed(w) =>
            /\ ~chClosed[wch[w]]
            /\ ctx[wch[w]] = "live"
            /\ \A p \in Pubs : ppc[p] \in {"close", "done"} => pold[p] # wch[w]

\* the worker of event 1 is reconciling while the mailbox of a later event
\* for the same id has been installed
C35_Witness ==
    /\ wpc[1] \in {"zip", "delset"}
    /\ wch[1] = 1
    /\ CallsRemain(1)
    /\ ppc[2] = "done"
    /\ order = <<1, 2>>

\* worker w is between loading a mailbox and its compare-and-delete
PreCommit(w) ==
    wpc[w] \in {"load", "recv", "awaitCmds", "awaitReplies", "awaitDel", "cad"}

\* C36: for every source-message id at most one worker at a time is in the
\* pre-commit phase of its loop, and a worker is spawned for an id only
\* when the compare-and-delete of every worker spawned before it for that
\* id has succeeded.
C36_OneWorkerPreCommit ==
    /\ [](\A i \in Ids :
             Cardinality({w \in Pubs : pid[w] = i /\ PreCommit(w)}) <= 1)
    /\ [][\A p \in Pubs :
             (wpc[p] = "none" /\ wpc'[p] # "none") =>
                \A w \in Pubs \ {p} :
                    (pid[w] = pid[p] /\ wpc[w] # "none") => Committed(w)]_vars

\* a second worker was spawned for the id and is in its pre-commit phase
\* while the first, past its compare-and-delete, still reconciles
C36_Witness ==
    \E v, w \in Pubs :
        /\ v # w /\ pid[v] = pid[w]
        /\ PreCommit(w)
        /\ wpc[v] \in {"zip", "delset"}

\* C40: the worker's two defensive exits are unreachable: whenever a worker
\* loads the map for its id an entry is present, and the mailbox it loaded
\* yields an event when received from, it is never closed and empty.
C40_DefensiveExitsUnreachable ==
    \A w \in Pubs :
        /\ wexit[w] \notin {"loadfail", "closedrecv"}
        /\ wpc[w] = "load" => syncMap[pid[w]] # NoCh
        /\ wpc[w] = "recv" => chBuf[wch[w]]

\* a worker whose compare-and-delete failed loaded the map again, received
\* the later event and reconciled it
C40_Witness ==
    \E w \in Pubs :
        /\ wpc[w] = "done" /\ wexit[w] = "reconciled"
        /\ wch[w] # w
        /\ cmdResults[w] # <<>>
        /\ chClosed[w]

\* C39: every watcher goroutine started by contextFromChannel for a mailbox
\* eventually returns from its receive and cancels the context it guards:
\* eventually no mailbox that a worker received from has a context that is
\* still live (its watcher still blocked in <-ch).
WatcherBlocked(c) == ctx[c] = "live"
C39_WatchersTerminate ==
    <>[](\A c \in Pubs : ~WatcherBlocked(c))

\* C37: once the first await of a New or NewDeferred future has returned,
\* every await that has returned gave the outcome the sync.Once captured,
\* whatever its own token, and the captured outcome never changes; when that
\* outcome is the cancellation error taken before any runner's send was
\* received, no send is ever received afterwards, so no awaiter gets the
\* task's result.
CancelledFirst ==
    /\ recvOnce = "done"
    /\ \A r \in Runners : rpc[r] \notin {"sent", "done"}

C37_FirstOutcomeCached ==
    /\ [](\A a \in Awaiters : apc[a] = "ret" => recvOnce = "done" /\ aout[a] = fresult)
    /\ [](CancelledFirst => fresult = [Zero EXCEPT !.Err = Canceled])
    /\ [][recvOnce = "done" => recvOnce' = "done" /\ fresult' = fresult]_vars
    /\ [][CancelledFirst => CancelledFirst']_vars

C37_Witness ==
    /\ CancelledFirst
    /\ task.Value = "v"
    /\ \E r \in Runners : rpc[r] = "sending" /\ rres[r] = RunBody(task, Zero)
    /\ \E a, b \in Awaiters :
          /\ actx[a] /\ ~actx[b]
          /\ apc[a] = "ret" /\ apc[b] = "ret"
          /\ aout[a] = aout[b]
          /\ aout[b].Err = Canceled

\* C38: every runner goroutine of an awaited future terminates once its task
\* body has returned: a runner that is past its task (blocked in its send of
\* the result, or about to close the channel) eventually is done.
PastTask(r) == rpc[r] \in {"sending", "sent"}
Awaited == \E a \in Awaiters : apc[a] # "idle"
C38_RunnersTerminate ==
    \A r \in Runners : (PastTask(r) /\ Awaited) ~> (rpc[r] = "done")

\* ---- vocabulary of the rendered outputs ----

\* the pieces of output i in the content of a result: the last three pieces
\* per output are its header, its embedded text and the footer
EmbedPos(i) == Len(content) - 3 * (Len(OutputsOf(xprog)) - i) - 1
Embedded(i) == content[EmbedPos(i)]
\* the budget output i was rendered with
LimitOf(i) ==
    contentMax - RuneCount(SubSeq(content, 1, EmbedPos(i) - 2))
        - content[EmbedPos(i) - 1].n - Footer.n
Rendered == xpc = "returned" /\ ret = "result" /\ OutputsOf(xprog) # <<>>

\* C31: in a result, every non-empty output stream whose embedded text is not
\* the whole stream has a file stdout.log or stderr.log attached whose bytes
\* are the whole stream.
C31_TruncatedOutputAttached ==
    Rendered =>
        \A i \in 1..Len(OutputsOf(xprog)) :
            LET out == OutputsOf(xprog)[i]
            IN Embedded(i).s # Str(out.Output) =>
                  \E j \in 1..Len(files) :
                      files[j] = [Name |-> out.Name \o ".log", Data |-> out.Output]

C31_Witness ==
    /\ Rendered
    /\ Len(OutputsOf(xprog)) = 2
    /\ Embedded(1).s # Str(xprog.stdout)
    /\ Embedded(2).s # Str(xprog.stderr)
    /\ files = <<[Name |-> "stdout.log", Data |-> xprog.stdout],
                 [Name |-> "stderr.log", Data |-> xprog.stderr]>>

RECURSIVE LFs(_)
\* the number of LF bytes of b
LFs(b) == IF b = <<>> THEN 0 ELSE (IF Head(b) = "\n" THEN 1 ELSE 0) + LFs(Tail(b))

\* the length of the prefix of b ending immediately after its k-th LF
\* (k >= 1, b holding at least k LF bytes)
AfterLF(b, k) == CHOOSE n \in 1..Len(b) : b[n] = "\n" /\ LFs(SubSeq(b, 1, n)) = k

\* the prefix of b ending immediately after its k-th LF; no line for k = 0
LinesPrefix(b, k) == IF k = 0 THEN <<>> ELSE SubSeq(b, 1, AfterLF(b, k))

\* the rune budget is not reached before the scan passes LF number k: the
\* budget is never met (not positive) or not by the runes before that LF
BudgetNotFirst(b, k, maxRunes) == maxRunes < 1 \/ maxRunes >= AfterLF(b, k)

\* C32: in a result, for every configured pair of line limits, an output
\* stream holding more LF bytes than NumberOfLinesToEmbedOutput (and at least
\* NumberOfLinesToEmbedUploadedOutput of them), whose rune budget is not
\* reached first, is embedded as exactly its prefix ending immediately after
\* its NumberOfLinesToEmbedUploadedOutput-th LF.
C32_ExcerptIsPreviewLines ==
    Rendered =>
        \A i \in 1..Len(OutputsOf(xprog)) :
            LET b == OutputsOf(xprog)[i].Output
                maxLines == xcall.NumberOfLinesToEmbedOutput
                previewLines == xcall.NumberOfLinesToEmbedUploadedOutput
            IN (/\ LFs(b) > maxLines
                /\ LFs(b) >= previewLines
                /\ BudgetNotFirst(b, maxLines + 1, LimitOf(i)))
                  => Embedded(i).s = Str(LinesPrefix(b, previewLines))

\* C33: with the attachment-extension option empty, no attachment of the
\* message is requested or used as the input: the detection requests
\* nothing, does not end in a fetch error, and the input it ends with is the
\* first code block of the content if there is one and nil otherwise.
C33_EmptyExtensionDisablesAttachment ==
    extension = <<>> =>
        /\ fetched = <<>>
        /\ ipc # "error"
        /\ ipc = "detected" => stdin = emsg.Codeblock

====
